---------------------------- MODULE Spec2Model ----------------------------
(***************************************************************************)
(* lite-agent backend: the message-to-event adapter (core/adapters.py),    *)
(* the session service (app/services/session_service.py), the task and     *)
(* event stores (app/services/task_service.py, event_service.py) and the   *)
(* streaming response endpoint (app/api/v1/endpoints/response.py).         *)
(*                                                                         *)
(* Python values whose dynamic type the code inspects (isinstance,         *)
(* hasattr, truthiness) are tagged records [tag, val]; optional scalars    *)
(* (ids, session ids) are strings with the marker None.                    *)
(***************************************************************************)
EXTENDS Integers, Sequences, FiniteSets, TLC

VARIABLES
    \* ---- one stand-alone EventAdapter run (core/adapters.py) ----
    adapter,      \* the EventAdapter instance and its generator frame
    emitted,      \* events yielded so far by adapt_message_stream
    consumed,     \* upstream items pulled so far (messages, then "end"/"raise")
    \* ---- the persistent store (SQLAlchemy models) ----
    tasks,        \* Task rows by id; ids are uuids, never reused
    events,       \* Event rows of each task_id, in commit order
    conversations,\* Conversation rows of each task_id, in commit order
    \* ---- in-flight requests of the response endpoint ----
    req,          \* per request: the locals of event_generator
    sse,          \* per request: what was streamed to the client
    log           \* per request: error/warning lines of the reconciler

vars == <<adapter, emitted, consumed, tasks, events, conversations, req, sse, log>>
adapterVars == <<adapter, emitted, consumed>>
storeVars == <<tasks, events, conversations>>
requestVars == <<req, sse, log>>

-----------------------------------------------------------------------------
(* Bounds of the model *)

\* upstream messages one run may deliver before it ends or raises
MaxMsgs == 3
\* Task rows ever created (eagerly or lazily)
MaxTasks == 3
\* requests the response endpoint receives
NumRequests == 2
\* upstream messages of one turn of the response endpoint, when requests
\* run concurrently
MaxTurnMsgs == 1
\* and when they run one after another
MaxSeqMsgs == 2

(* Program constants *)
STREAMING_CHUNK_SIZE == 10

-----------------------------------------------------------------------------
(* Python values *)

None == "None"          \* Python None, for optional scalars
Absent == "Absent"      \* the attribute / dict key does not exist

PyNone == [tag |-> "none"]
PyAbsent == [tag |-> "absent"]
PyStr(s) == [tag |-> "str", val |-> s]
PyList(xs) == [tag |-> "list", val |-> xs]
PyDict(d) == [tag |-> "dict", val |-> d]
PyNum(n) == [tag |-> "num", val |-> n]
\* any other object; val is its str() form
PyObj(s) == [tag |-> "obj", val |-> s]

\* the literal {} where the code only takes its str()
EmptyDict == [tag |-> "obj", val |-> <<123, 125>>]

\* bool(v)
Truthy(v) ==
    CASE v.tag = "none" -> FALSE
      [] v.tag = "absent" -> FALSE
      [] v.tag = "str" -> v.val # <<>>
      [] v.tag = "list" -> v.val # <<>>
      [] v.tag = "dict" -> DOMAIN v.val # {}
      [] v.tag = "num" -> v.val # 0
      [] OTHER -> TRUE

\* getattr(obj, name, default)
GetAttr(v, default) == IF v = PyAbsent THEN default ELSE v

\* a text of n characters (characters are digits)
Text(n) == [i \in 1..n |-> i % 10]


Min(a, b) == IF a < b THEN a ELSE b

-----------------------------------------------------------------------------
(* Identifiers.  str(uuid.uuid4()) is a fresh value: <<"uuid", k, j>> is the *)
(* j-th uuid drawn while converting upstream message k.  Identifiers that   *)
(* the upstream supplies are <<"up", n, 0>>.                                *)

NoId == <<"none", 0, 0>>        \* None
AbsentId == <<"absent", 0, 0>>  \* the attribute does not exist
Uuid(k, j) == <<"uuid", k, j>>
UpId(n) == <<"up", n, 0>>
\* the uuid an EventAdapter draws as its run_id; 0 is the stand-alone run
RunId(r) == <<"run", r, 0>>
\* the uuid the endpoint's exception handler draws for its RunError
HandlerRunId(r) == <<"run", r, 1>>

-----------------------------------------------------------------------------
(* core/events.py: the event vocabulary.  cls is the pydantic class, type  *)
(* the wire tag; they differ only for CustomEvent, whose type is free.     *)

\* the data dict of a CustomEvent, keys absent unless set
D0 == [subtype |-> Absent, data |-> PyAbsent, session_id |-> Absent,
       usage |-> PyAbsent, total_cost_usd |-> PyAbsent, raw |-> Absent,
       block_type |-> Absent, block_repr |-> Absent, task_id |-> -1]

BaseEvent == [cls |-> None, type |-> None, id |-> NoId, role |-> None,
              delta |-> <<>>, data |-> D0, run_id |-> NoId, error |-> None,
              error_type |-> None, total_cost_usd |-> PyNone, usage |-> PyNone,
              name |-> None, tool_call_id |-> NoId, content |-> <<>>,
              is_error |-> FALSE]

RunStarted(run_id) ==
    [BaseEvent EXCEPT !.cls = "RunStarted", !.type = "RunStarted", !.run_id = run_id]
RunFinished(run_id, cost, usage) ==
    [BaseEvent EXCEPT !.cls = "RunFinished", !.type = "RunFinished", !.run_id = run_id,
                      !.total_cost_usd = cost, !.usage = usage]
RunError(run_id, error, error_type) ==
    [BaseEvent EXCEPT !.cls = "RunError", !.type = "RunError", !.run_id = run_id,
                      !.error = error, !.error_type = error_type]
TextMessageStart(id, role) ==
    [BaseEvent EXCEPT !.cls = "TextMessageStart", !.type = "TextMessageStart",
                      !.id = id, !.role = role]
TextMessageContent(id, delta) ==
    [BaseEvent EXCEPT !.cls = "TextMessageContent", !.type = "TextMessageContent",
                      !.id = id, !.delta = delta]
TextMessageEnd(id) ==
    [BaseEvent EXCEPT !.cls = "TextMessageEnd", !.type = "TextMessageEnd", !.id = id]
ThinkingStart(id) ==
    [BaseEvent EXCEPT !.cls = "ThinkingStart", !.type = "ThinkingStart", !.id = id]
ThinkingContent(id, delta) ==
    [BaseEvent EXCEPT !.cls = "ThinkingContent", !.type = "ThinkingContent",
                      !.id = id, !.delta = delta]
ThinkingEnd(id) ==
    [BaseEvent EXCEPT !.cls = "ThinkingEnd", !.type = "ThinkingEnd", !.id = id]
ToolCallStart(id, name) ==
    [BaseEvent EXCEPT !.cls = "ToolCallStart", !.type = "ToolCallStart",
                      !.id = id, !.name = name]
ToolCallArgs(id, delta) ==
    [BaseEvent EXCEPT !.cls = "ToolCallArgs", !.type = "ToolCallArgs",
                      !.id = id, !.delta = delta]
ToolCallEnd(id) ==
    [BaseEvent EXCEPT !.cls = "ToolCallEnd", !.type = "ToolCallEnd", !.id = id]
ToolCallResult(id, tool_call_id, content, is_error) ==
    [BaseEvent EXCEPT !.cls = "ToolCallResult", !.type = "ToolCallResult", !.id = id,
                      !.tool_call_id = tool_call_id, !.role = "tool",
                      !.content = content, !.is_error = is_error]
CustomEvent(type, data) ==
    [BaseEvent EXCEPT !.cls = "CustomEvent", !.type = type, !.data = data]

-----------------------------------------------------------------------------
(* What a converter (an async generator) does: it yields evs, in order, and *)
(* then either returns (exc = None) or raises exc.                          *)

\* an exception is its class name and its str(); NoExc is "no exception"
Exc(type, msg) == [type |-> type, msg |-> msg]
NoExc == Exc(None, None)
TypeError == Exc("TypeError", "unsupported operand or argument type")
ValueError == Exc("ValueError", "dictionary update sequence element")
ValidationError == Exc("ValidationError", "validation error for event")

Yields(evs) == [evs |-> evs, exc |-> NoExc]
Raises(exc) == [evs |-> <<>>, exc |-> exc]
\* run g1, and g2 after it unless g1 raised
Then(g1, g2) == IF g1.exc # NoExc THEN g1
                ELSE [evs |-> g1.evs \o g2.evs, exc |-> g2.exc]

\* str(v)
StrOf(v) == CASE v.tag \in {"str", "obj"} -> v.val
              [] v.tag = "num" -> <<v.val>>
              [] OTHER -> <<78, 111, 110, 101>>    \* "None"


-----------------------------------------------------------------------------
(* Upstream content blocks.  A block is what the converters can see of it: *)
(* its class name, and each attribute (PyAbsent / AbsentId / Absent when   *)
(* the block has no such attribute).                                       *)

B0 == [cls |-> "object", type |-> None, text |-> PyAbsent, thinking |-> PyAbsent,
       id |-> AbsentId, name |-> Absent, input |-> PyAbsent,
       tool_use_id |-> AbsentId, content |-> PyAbsent, is_error |-> PyAbsent]

TextBlock(text) == [B0 EXCEPT !.cls = "TextBlock", !.text = text]
ThinkingBlock(text) == [B0 EXCEPT !.cls = "ThinkingBlock", !.thinking = text]
ToolUseBlock(id, name, input) ==
    [B0 EXCEPT !.cls = "ToolUseBlock", !.id = id, !.name = name, !.input = input]
ToolResultBlock(tool_use_id, content, is_error) ==
    [B0 EXCEPT !.cls = "ToolResultBlock", !.tool_use_id = tool_use_id,
               !.content = content, !.is_error = is_error]

\* ContentBlockConverter._stream_text: one event per slice text[i:i+CHUNK],
\* event_factory being the event to fill with the slice; len() of anything
\* but a string raises
StreamText(text, event_factory) ==
    IF text.tag # "str" THEN Raises(TypeError)
    ELSE LET n == Len(text.val)
             starts == (n + STREAMING_CHUNK_SIZE - 1) \div STREAMING_CHUNK_SIZE
         IN  Yields([c \in 1..starts |->
                 [event_factory EXCEPT !.delta =
                     SubSeq(text.val, (c - 1) * STREAMING_CHUNK_SIZE + 1,
                            Min(c * STREAMING_CHUNK_SIZE, n))]])

\* ContentBlockConverter._convert_thinking
ConvertThinking(block, k, j) ==
    LET thinking_id == Uuid(k, 2 * j - 1)
        thinking_text == GetAttr(block.thinking, PyStr(<<>>))
        event_factory == ThinkingContent(thinking_id, <<>>)
    IN  Then(Yields(<<ThinkingStart(thinking_id)>>),
        Then(StreamText(thinking_text, event_factory),
             Yields(<<ThinkingEnd(thinking_id)>>)))

\* ContentBlockConverter._convert_text
ConvertText(block, k, j) ==
    LET message_id == Uuid(k, 2 * j - 1)
        text == GetAttr(block.text, PyStr(<<>>))
        event_factory == TextMessageContent(message_id, <<>>)
    IN  Then(Yields(<<TextMessageStart(message_id, "assistant")>>),
        Then(StreamText(text, event_factory),
             Yields(<<TextMessageEnd(message_id)>>)))

\* ContentBlockConverter._convert_tool_use
ConvertToolUse(block, k, j) ==
    LET tool_call_id == IF block.id = AbsentId THEN Uuid(k, 2 * j - 1) ELSE block.id
        tool_name == IF block.name = Absent THEN "unknown" ELSE block.name
        input_str == PyStr(StrOf(GetAttr(block.input, EmptyDict)))
        event_factory == ToolCallArgs(tool_call_id, <<>>)
    IN  Then(Yields(<<ToolCallStart(tool_call_id, tool_name)>>),
        Then(StreamText(input_str, event_factory),
             Yields(<<ToolCallEnd(tool_call_id)>>)))

\* ContentBlockConverter._convert_tool_result
ConvertToolResult(block, k, j) ==
    LET tool_call_id == IF block.tool_use_id = AbsentId THEN Uuid(k, 2 * j - 1)
                        ELSE block.tool_use_id
        content == StrOf(GetAttr(block.content, PyStr(<<>>)))
        is_error == Truthy(GetAttr(block.is_error, PyNone))
    IN  Yields(<<ToolCallResult(Uuid(k, 2 * j), tool_call_id, content, is_error)>>)

\* a converter that looks at the shape of a block and not at its type tag
ConvertBlockByShape(block, k, j) ==
    IF block.cls = "ThinkingBlock" \/ block.thinking # PyAbsent
    THEN ConvertThinking(block, k, j)
    ELSE IF block.cls = "TextBlock" \/ block.text # PyAbsent
    THEN ConvertText(block, k, j)
    ELSE IF block.cls = "ToolUseBlock"
            \/ (block.name # Absent /\ block.input # PyAbsent /\ block.id # AbsentId)
    THEN ConvertToolUse(block, k, j)
    ELSE IF block.cls = "ToolResultBlock"
            \/ (block.tool_use_id # AbsentId /\ block.content # PyAbsent)
    THEN ConvertToolResult(block, k, j)
    ELSE Yields(<<CustomEvent("UnknownBlock",
                              [D0 EXCEPT !.block_type = block.type,
                                         !.block_repr = block.cls])>>)

\* a converter that rejects the blocks it does not know
ConvertBlockStrict(block, k, j) ==
    IF block.type \in {"thinking", "text", "tool_use", "tool_result"}
       \/ block.cls \in {"ThinkingBlock", "TextBlock", "ToolUseBlock", "ToolResultBlock"}
    THEN IF block.cls = "ThinkingBlock" THEN ConvertThinking(block, k, j)
         ELSE IF block.cls = "TextBlock" THEN ConvertText(block, k, j)
         ELSE IF block.cls = "ToolUseBlock" THEN ConvertToolUse(block, k, j)
         ELSE ConvertToolResult(block, k, j)
    ELSE Raises(TypeError)

\* ContentBlockConverter.convert: by type tag, else by class name or shape
ConvertBlock(block, k, j) ==
    CASE block.type = "thinking" -> ConvertThinking(block, k, j)
      [] block.type = "text" -> ConvertText(block, k, j)
      [] block.type = "tool_use" -> ConvertToolUse(block, k, j)
      [] block.type = "tool_result" -> ConvertToolResult(block, k, j)
      [] OTHER ->
         IF block.cls = "ThinkingBlock" \/ block.thinking # PyAbsent
         THEN ConvertThinking(block, k, j)
         ELSE IF block.cls = "TextBlock" \/ block.text # PyAbsent
         THEN ConvertText(block, k, j)
         ELSE IF block.cls = "ToolUseBlock"
                 \/ (block.name # Absent /\ block.input # PyAbsent /\ block.id # AbsentId)
         THEN ConvertToolUse(block, k, j)
         ELSE IF block.cls = "ToolResultBlock"
                 \/ (block.tool_use_id # AbsentId /\ block.content # PyAbsent)
         THEN ConvertToolResult(block, k, j)
         ELSE Yields(<<CustomEvent("UnknownBlock",
                                   [D0 EXCEPT !.block_type = block.type,
                                              !.block_repr = block.cls])>>)

\* for block in content: async for event in convert(block): yield event
RECURSIVE ConvertBlocks(_, _, _)
ConvertBlocks(blocks, k, j) ==
    IF blocks = <<>> THEN Yields(<<>>)
    ELSE Then(ConvertBlock(Head(blocks), k, j), ConvertBlocks(Tail(blocks), k, j + 1))

\* ToolCallConverter.convert
ConvertToolCall(tool_call, k, j) ==
    LET tool_call_id == IF tool_call.id = AbsentId THEN Uuid(k, 2 * j - 1) ELSE tool_call.id
        tool_name == IF tool_call.name = Absent THEN "unknown" ELSE tool_call.name
        input_str == PyStr(StrOf(GetAttr(tool_call.input, EmptyDict)))
        event_factory == ToolCallArgs(tool_call_id, <<>>)
    IN  Then(Yields(<<ToolCallStart(tool_call_id, tool_name)>>),
        Then(StreamText(input_str, event_factory),
             Yields(<<ToolCallEnd(tool_call_id)>>)))

RECURSIVE ConvertToolCalls(_, _, _)
ConvertToolCalls(calls, k, j) ==
    IF calls = <<>> THEN Yields(<<>>)
    ELSE Then(ConvertToolCall(Head(calls), k, j), ConvertToolCalls(Tail(calls), k, j + 1))


-----------------------------------------------------------------------------
(* Upstream messages: the class name and the attributes the code reads.    *)

M0 == [cls |-> "object", type |-> Absent, subtype |-> None, data |-> PyAbsent,
       content |-> PyAbsent, tool_calls |-> PyAbsent, usage |-> PyAbsent,
       id |-> NoId, message_id |-> NoId, total_cost_usd |-> PyAbsent,
       session_id |-> Absent, tool_call_id |-> AbsentId, is_error |-> PyAbsent]

\* a dict that may hold the keys session_id and usage
DataDict(session_id, usage) == PyDict([session_id |-> session_id, usage |-> usage])

\* d.get(key) on a dict whose absent keys are marked
DictGet(v) == IF v = Absent THEN None ELSE v

\* getattr(message, 'type', type(message).__name__)
Discriminant(m) == IF m.type = Absent THEN m.cls ELSE m.type

\* SystemMessageConverter.convert
ConvertSystemMessage(m) ==
    LET message_data == GetAttr(m.data, PyDict(<<>>))
        session_id == IF message_data.tag = "dict" /\ DOMAIN message_data.val # {}
                      THEN DictGet(message_data.val.session_id) ELSE None
        data == [D0 EXCEPT !.subtype = m.subtype, !.data = message_data,
                           !.session_id = IF session_id # None THEN session_id ELSE Absent]
    IN  Yields(<<CustomEvent("SystemMessage", data)>>)

\* UserMessageConverter.convert
ConvertUserMessage(m, k) ==
    LET content == GetAttr(m.content, PyList(<<>>))
        message_id == Uuid(k, 1)
    IN  IF content.tag = "list" THEN ConvertBlocks(content.val, k, 1)
        ELSE IF content.tag = "str"
        THEN Yields(<<TextMessageStart(message_id, "user"),
                      TextMessageContent(message_id, content.val),
                      TextMessageEnd(message_id)>>)
        ELSE Yields(<<>>)

\* AssistantMessageConverter.convert
ConvertAssistantMessage(m, k) ==
    LET calls == IF m.tool_calls # PyAbsent /\ Truthy(m.tool_calls)
                 THEN m.tool_calls.val ELSE <<>>
        content == GetAttr(m.content, PyList(<<>>))
        j == Len(calls) + 1
        message_id == Uuid(k, 2 * j - 1)
    IN  Then(ConvertToolCalls(calls, k, 1),
             IF content.tag = "list" THEN ConvertBlocks(content.val, k, j)
             ELSE IF content.tag = "str"
             THEN Yields(<<TextMessageStart(message_id, "assistant"),
                           TextMessageContent(message_id, content.val),
                           TextMessageEnd(message_id)>>)
             ELSE Yields(<<>>))

\* ResultMessageConverter.convert: the usage summary it extracts
ResultUsageData(m) ==
    LET direct == IF m.usage # PyAbsent THEN m.usage ELSE PyNone
        nested == IF ~Truthy(direct) /\ m.data # PyAbsent /\ m.data.tag = "dict"
                     /\ DOMAIN m.data.val # {} /\ m.data.val.usage # PyAbsent
                  THEN m.data.val.usage ELSE direct
    IN  IF ~Truthy(nested) THEN nested
        ELSE IF nested.tag = "dict" THEN nested
        ELSE PyDict([raw |-> StrOf(nested)])

\* ResultMessageConverter.convert: the event
ConvertResultMessage(m) ==
    LET usage_data == ResultUsageData(m)
        total_cost == IF m.total_cost_usd # PyAbsent THEN m.total_cost_usd ELSE PyNone
        session_id == IF m.session_id = Absent THEN None ELSE m.session_id
        data == [D0 EXCEPT !.subtype = m.subtype,
                           !.usage = IF Truthy(usage_data) THEN usage_data ELSE PyAbsent,
                           !.total_cost_usd = IF total_cost # PyNone THEN total_cost
                                              ELSE PyAbsent,
                           !.session_id = IF session_id # None THEN session_id ELSE Absent]
    IN  Yields(<<CustomEvent("ResultMessage", data)>>)

\* ToolMessageConverter.convert
ConvertToolMessage(m, k) ==
    LET tool_call_id == IF m.tool_call_id # AbsentId THEN m.tool_call_id
                        ELSE IF m.id # NoId THEN m.id ELSE Uuid(k, 2)
        content == StrOf(GetAttr(m.content, PyStr(<<>>)))
        is_error == Truthy(GetAttr(m.is_error, PyNone))
    IN  Yields(<<ToolCallResult(Uuid(k, 1), tool_call_id, content, is_error)>>)

\* EventAdapter._convert_message: the first converter that can handle the
\* message; else a CustomEvent typed by the raw discriminant
ConvertMessage(m, k) ==
    LET msg_type == Discriminant(m)
    IN  CASE msg_type = "SystemMessage" -> ConvertSystemMessage(m)
          [] msg_type = "UserMessage" -> ConvertUserMessage(m, k)
          [] msg_type = "AssistantMessage" -> ConvertAssistantMessage(m, k)
          [] msg_type = "ResultMessage" -> ConvertResultMessage(m)
          [] msg_type \in {"ToolMessage", "FunctionMessage", "ToolResultMessage"} ->
                ConvertToolMessage(m, k)
          [] OTHER -> IF msg_type = None THEN Raises(ValidationError)
                      ELSE Yields(<<CustomEvent(msg_type, [D0 EXCEPT !.raw = m.cls])>>)


-----------------------------------------------------------------------------
(* EventAdapter: the instance fields, and the frame of the generator        *)
(* adapt_message_stream (its locals, what the current message's converter   *)
(* has still to yield, and the exception it raises after that).             *)

\* EventAdapter.__init__, before adapt_message_stream is first resumed
NewAdapter(run_id) ==
    [state |-> "NotStarted", run_id |-> run_id,
     processed_message_ids |-> {}, step_usages |-> <<>>,
     result_message_usage |-> PyNone, result_message_cost |-> PyNone,
     total_cost_usd |-> PyNum(0), total_usage |-> PyNone,
     nmsgs |-> 0, pending |-> <<>>, exc |-> NoExc]

\* a tracker that records every usage it sees
TrackUsageEveryTime(a, m, k) ==
    LET is_assistant == Discriminant(m) = "AssistantMessage" \/ m.cls = "AssistantMessage"
        usage == GetAttr(m.usage, PyNone)
        message_id == IF m.id # NoId THEN m.id
                      ELSE IF m.message_id # NoId THEN m.message_id ELSE Uuid(k, 0)
    IN  IF ~is_assistant \/ m.usage = PyAbsent \/ ~Truthy(usage) THEN a
        ELSE [a EXCEPT !.processed_message_ids = @ \cup {message_id},
                       !.step_usages = Append(@, [message_id |-> message_id,
                                                   usage |-> usage])]

\* EventAdapter._track_usage
TrackUsage(a, m, k) ==
    LET is_assistant == Discriminant(m) = "AssistantMessage" \/ m.cls = "AssistantMessage"
        usage == GetAttr(m.usage, PyNone)
        message_id == IF m.id # NoId THEN m.id
                      ELSE IF m.message_id # NoId THEN m.message_id ELSE Uuid(k, 0)
        usage_dict == IF usage.tag = "dict" THEN usage ELSE PyDict([raw |-> StrOf(usage)])
    IN  IF ~is_assistant \/ m.usage = PyAbsent \/ ~Truthy(usage) THEN a
        ELSE IF message_id \in a.processed_message_ids THEN a
        ELSE [a EXCEPT !.processed_message_ids = @ \cup {message_id},
                       !.step_usages = Append(@, [message_id |-> message_id,
                                                   usage |-> usage_dict])]

\* usage.get(key, 0)
UsageGet(usage, key) == IF key \in DOMAIN usage.val THEN usage.val[key] ELSE 0

RECURSIVE SumUsage(_, _)
SumUsage(steps, key) ==
    IF steps = <<>> THEN 0
    ELSE UsageGet(Head(steps).usage, key) + SumUsage(Tail(steps), key)

\* an aggregate of the input and output tokens alone
AggregateUsageOfTokens(a) ==
    IF a.step_usages = <<>> THEN PyNone
    ELSE PyDict([input_tokens |-> SumUsage(a.step_usages, "input_tokens"),
                 output_tokens |-> SumUsage(a.step_usages, "output_tokens"),
                 cache_creation_input_tokens |-> 0,
                 cache_read_input_tokens |-> 0])

\* EventAdapter._aggregate_usage
AggregateUsage(a) ==
    IF a.step_usages = <<>> THEN PyNone
    ELSE PyDict([input_tokens |-> SumUsage(a.step_usages, "input_tokens"),
                 output_tokens |-> SumUsage(a.step_usages, "output_tokens"),
                 cache_creation_input_tokens |->
                     SumUsage(a.step_usages, "cache_creation_input_tokens"),
                 cache_read_input_tokens |->
                     SumUsage(a.step_usages, "cache_read_input_tokens")])

\* adapt_message_stream, the loop body before _convert_message: usage
\* tracking, and cost and usage of a ResultMessage; dict() of a truthy
\* non-dict raises
ObserveMessage(a, m, k) ==
    LET a1 == TrackUsage(a, m, k)
        cost_val == GetAttr(m.total_cost_usd, PyNone)
        usage_val == GetAttr(m.usage, PyNone)
        a2 == IF m.total_cost_usd # PyAbsent /\ Truthy(cost_val)
              THEN [a1 EXCEPT !.total_cost_usd = cost_val] ELSE a1
    IN  IF m.cls # "ResultMessage" THEN [a |-> a1, exc |-> NoExc]
        ELSE IF m.usage # PyAbsent /\ Truthy(usage_val)
        THEN IF usage_val.tag = "dict"
             THEN [a |-> [a2 EXCEPT !.total_usage = usage_val], exc |-> NoExc]
             ELSE [a |-> a2, exc |-> IF usage_val.tag = "str" THEN ValueError
                                      ELSE TypeError]
        ELSE [a |-> a2, exc |-> NoExc]

\* ResultMessageConverter.convert: what it stores in the adapter
StoreResult(a, m) ==
    LET usage_data == ResultUsageData(m)
        total_cost == IF m.total_cost_usd # PyAbsent THEN m.total_cost_usd ELSE PyNone
    IN  IF Discriminant(m) # "ResultMessage" THEN a
        ELSE [a EXCEPT !.result_message_usage = IF Truthy(usage_data) THEN usage_data ELSE @,
                       !.result_message_cost = IF Truthy(total_cost) THEN total_cost ELSE @]

\* a summary that reports the steps' usage only when the result message
\* gave no cost
FinishEventEitherOr(a) ==
    LET total_usage == IF Truthy(a.result_message_usage) THEN a.result_message_usage
                       ELSE IF a.step_usages # <<>> /\ ~Truthy(a.result_message_cost)
                       THEN AggregateUsage(a)
                       ELSE a.total_usage
        total_cost_usd == IF Truthy(a.result_message_cost) THEN a.result_message_cost
                          ELSE a.total_cost_usd
    IN  IF total_cost_usd.tag # "num"
        THEN RunError(a.run_id, TypeError.msg, TypeError.type)
        ELSE RunFinished(a.run_id,
                         IF total_cost_usd.val > 0 THEN total_cost_usd ELSE PyNone,
                         total_usage)

\* a summary that reports the cost and the sum as they stand, zero or not
FinishEventAsIs(a) ==
    LET total_usage == IF Truthy(a.result_message_usage) THEN a.result_message_usage
                       ELSE PyDict([input_tokens |-> SumUsage(a.step_usages, "input_tokens"),
                                    output_tokens |-> SumUsage(a.step_usages, "output_tokens")])
        total_cost_usd == IF Truthy(a.result_message_cost) THEN a.result_message_cost
                          ELSE a.total_cost_usd
    IN  IF total_cost_usd.tag # "num"
        THEN RunError(a.run_id, TypeError.msg, TypeError.type)
        ELSE RunFinished(a.run_id, total_cost_usd, total_usage)

\* a summary that prefers the sum of the steps to the result message's
FinishEventOfSteps(a) ==
    LET total_usage == IF a.step_usages # <<>> THEN AggregateUsage(a)
                       ELSE IF Truthy(a.result_message_usage) THEN a.result_message_usage
                       ELSE a.total_usage
        total_cost_usd == IF Truthy(a.result_message_cost) THEN a.result_message_cost
                          ELSE a.total_cost_usd
    IN  IF total_cost_usd.tag # "num"
        THEN RunError(a.run_id, TypeError.msg, TypeError.type)
        ELSE RunFinished(a.run_id,
                         IF total_cost_usd.val > 0 THEN total_cost_usd ELSE PyNone,
                         total_usage)

\* adapt_message_stream after the loop: the terminal event of a stream that
\* ended normally; comparing a non-number with 0 raises
FinishEvent(a) ==
    LET total_usage == IF Truthy(a.result_message_usage) THEN a.result_message_usage
                       ELSE IF a.step_usages # <<>> THEN AggregateUsage(a)
                       ELSE a.total_usage
        total_cost_usd == IF Truthy(a.result_message_cost) THEN a.result_message_cost
                          ELSE a.total_cost_usd
    IN  IF total_cost_usd.tag # "num"
        THEN RunError(a.run_id, TypeError.msg, TypeError.type)
        ELSE RunFinished(a.run_id,
                         IF total_cost_usd.val > 0 THEN total_cost_usd ELSE PyNone,
                         total_usage)

\* a handler that reports the failure under another run id and without its
\* kind
ErrorEventAnonymous(a, e) == RunError(NoId, e.msg, None)

\* except Exception as e: yield RunError(...)
ErrorEvent(a, e) == RunError(a.run_id, e.msg, e.type)

\* a generator that goes on after its terminal event
TerminalStateRunsOn(ev) == "Running"

\* the state of the run after the terminal event ev
TerminalState(ev) == IF ev.cls = "RunFinished" THEN "Finished" ELSE "Errored"

NoEvent == BaseEvent

\* The generator is resumed with nothing left of the current message: it
\* awaits the upstream, which delivers a message, ends or raises.  The
\* result is the new frame and the event yielded (NoEvent when the message
\* converts to no event, and the upstream is awaited again).
Pull(a, item) ==
    IF item.kind = "raise"
    THEN [a |-> [a EXCEPT !.state = "Errored"], ev |-> ErrorEvent(a, item.exc)]
    ELSE IF item.kind = "end"
    THEN LET ev == FinishEvent(a)
         IN  [a |-> [a EXCEPT !.state = TerminalState(ev)], ev |-> ev]
    ELSE LET k == a.nmsgs + 1
             o == ObserveMessage([a EXCEPT !.nmsgs = k], item.msg, k)
             g == ConvertMessage(item.msg, k)
             a3 == StoreResult(o.a, item.msg)
         IN  IF o.exc # NoExc
             THEN [a |-> [o.a EXCEPT !.state = "Errored"], ev |-> ErrorEvent(a, o.exc)]
             ELSE IF g.evs # <<>>
             THEN [a |-> [a3 EXCEPT !.pending = Tail(g.evs), !.exc = g.exc],
                   ev |-> Head(g.evs)]
             ELSE IF g.exc # NoExc
             THEN [a |-> [a3 EXCEPT !.state = "Errored"], ev |-> ErrorEvent(a, g.exc)]
             ELSE [a |-> a3, ev |-> NoEvent]

\* a generator that hands out the events of a message last first
ResumeLastFirst(a) ==
    IF a.pending # <<>>
    THEN [a |-> [a EXCEPT !.pending = SubSeq(@, 1, Len(@) - 1)],
          ev |-> a.pending[Len(a.pending)]]
    ELSE [a |-> [a EXCEPT !.state = "Errored", !.exc = NoExc], ev |-> ErrorEvent(a, a.exc)]

\* The generator is resumed inside the current message's converter: the
\* next event of the message, or the RunError of the exception it raises.
Resume(a) ==
    IF a.pending # <<>>
    THEN [a |-> [a EXCEPT !.pending = Tail(@)], ev |-> Head(a.pending)]
    ELSE [a |-> [a EXCEPT !.state = "Errored", !.exc = NoExc], ev |-> ErrorEvent(a, a.exc)]

\* a generator that is over once it has yielded RunStarted
StartOver(a) == [a |-> [a EXCEPT !.state = "Finished"], ev |-> RunStarted(a.run_id)]

\* the first resumption: yield RunStarted(run_id=self.run_id)
Start(a) == [a |-> [a EXCEPT !.state = "Running"], ev |-> RunStarted(a.run_id)]

InConverter(a) == a.state = "Running" /\ (a.pending # <<>> \/ a.exc # NoExc)
AtUpstream(a) == a.state = "Running" /\ a.pending = <<>> /\ a.exc = NoExc


-----------------------------------------------------------------------------
(* The upstream runtime is a black box: the messages it may deliver.       *)

Sessions == {"S1", "S2"}

SystemInit(s) == [M0 EXCEPT !.cls = "SystemMessage", !.subtype = "init",
                            !.data = DataDict(s, PyAbsent)]
AssistantText(n) == [M0 EXCEPT !.cls = "AssistantMessage",
                               !.content = PyList(<<TextBlock(PyStr(Text(n)))>>)]
\* a text block whose text is None
AssistantBadText == [M0 EXCEPT !.cls = "AssistantMessage",
                               !.content = PyList(<<TextBlock(PyNone)>>)]
AssistantUsage(id, n) == [M0 EXCEPT !.cls = "AssistantMessage", !.id = id,
                                    !.content = PyList(<<ThinkingBlock(PyStr(Text(1)))>>),
                                    !.usage = PyDict([input_tokens |-> n])]
\* an assistant message whose usage has the four counters
AssistantUsageFull == [M0 EXCEPT !.cls = "AssistantMessage", !.id = UpId(9),
                                 !.content = PyList(<<ThinkingBlock(PyStr(Text(1)))>>),
                                 !.usage = PyDict([input_tokens |-> 1,
                                                   output_tokens |-> 2,
                                                   cache_creation_input_tokens |-> 3,
                                                   cache_read_input_tokens |-> 4])]
\* an assistant message whose usage is an object, not a dict
AssistantUsageRaw == [M0 EXCEPT !.cls = "AssistantMessage",
                                !.content = PyList(<<ThinkingBlock(PyStr(Text(1)))>>),
                                !.usage = PyObj(Text(1))]
AssistantToolUse == [M0 EXCEPT !.cls = "AssistantMessage",
                               !.content = PyList(<<ToolUseBlock(UpId(1), "Read",
                                                                 PyObj(Text(11)))>>)]
\* a tool_calls entry whose input is a string of exactly one chunk, and an
\* empty text block
AssistantCalls == [M0 EXCEPT !.cls = "AssistantMessage",
                             !.tool_calls = PyList(<<ToolUseBlock(UpId(2), "Bash",
                                                                  PyStr(Text(10)))>>),
                             !.content = PyList(<<TextBlock(PyStr(<<>>))>>)]
\* a block of a kind the converter does not know, followed by a text block
ImageBlock == [B0 EXCEPT !.cls = "ImageBlock", !.type = "image"]
AssistantImage == [M0 EXCEPT !.cls = "AssistantMessage",
                             !.content = PyList(<<ImageBlock,
                                                  TextBlock(PyStr(Text(2)))>>)]
\* a text block that holds one space
AssistantBlank == [M0 EXCEPT !.cls = "AssistantMessage",
                             !.content = PyList(<<TextBlock(PyStr(<<32>>))>>)]
UserEcho == [M0 EXCEPT !.cls = "UserMessage", !.content = PyStr(Text(2))]
UserToolResult == [M0 EXCEPT !.cls = "UserMessage",
                             !.content = PyList(<<ToolResultBlock(UpId(1), PyStr(Text(3)),
                                                                  PyNone)>>)]
\* a user message whose content is a list of one text block
UserBlocks == [M0 EXCEPT !.cls = "UserMessage",
                         !.content = PyList(<<TextBlock(PyStr(Text(3)))>>)]
Result(s, cost, usage) == [M0 EXCEPT !.cls = "ResultMessage", !.subtype = "success",
                                     !.session_id = s, !.total_cost_usd = cost,
                                     !.usage = usage]
\* a message class no converter is registered for
StreamEvent == [M0 EXCEPT !.cls = "StreamEvent"]
\* an unregistered message whose type attribute names a lifecycle event
TypedAsRunFinished == [M0 EXCEPT !.cls = "Notice", !.type = "RunFinished"]
\* a message whose type attribute is None
TypedNone == [M0 EXCEPT !.cls = "Notice", !.type = None]

AdapterMessages ==
    {SystemInit("S1"), AssistantText(2), AssistantText(11), AssistantBadText,
     AssistantUsage(UpId(7), 10), AssistantUsage(UpId(7), 3), AssistantUsage(NoId, 10),
     AssistantToolUse, AssistantCalls, AssistantImage, UserEcho, UserToolResult,
     Result("S1", PyNum(2), PyNone), Result(Absent, PyNone, PyDict([input_tokens |-> 5])),
     Result("S1", PyStr(Text(1)), PyNone), Result("S1", PyNone, PyObj(Text(1))),
     AssistantUsageRaw, AssistantUsageFull, StreamEvent, TypedAsRunFinished,
     TypedNone}

UpstreamExcs == {Exc("RuntimeError", "boom"), Exc("CLIConnectionError", "lost")}

Msg(m) == [kind |-> "msg", msg |-> m, exc |-> NoExc]
End == [kind |-> "end", msg |-> M0, exc |-> NoExc]
Raise(e) == [kind |-> "raise", msg |-> M0, exc |-> e]

-----------------------------------------------------------------------------
(* A stand-alone run of EventAdapter.adapt_message_stream, as the legacy    *)
(* chat endpoint drives it: every event is consumed as it is yielded.       *)

AdapterInit ==
    /\ adapter = NewAdapter(RunId(0))
    /\ emitted = <<>>
    /\ consumed = <<>>

Emit(r) ==
    /\ adapter' = r.a
    /\ emitted' = IF r.ev = NoEvent THEN emitted ELSE Append(emitted, r.ev)

\* the generator is started: RunStarted
AdapterStart ==
    /\ adapter.state = "NotStarted"
    /\ Emit(Start(adapter))
    /\ UNCHANGED <<consumed, storeVars, requestVars>>

\* the next event of the message being converted
AdapterResume ==
    /\ InConverter(adapter)
    /\ Emit(Resume(adapter))
    /\ UNCHANGED <<consumed, storeVars, requestVars>>

\* the upstream delivers a message
AdapterPullMessage ==
    /\ AtUpstream(adapter)
    /\ adapter.nmsgs < MaxMsgs
    /\ \E m \in AdapterMessages :
          /\ Emit(Pull(adapter, Msg(m)))
          /\ consumed' = Append(consumed, Msg(m))
    /\ UNCHANGED <<storeVars, requestVars>>

\* the upstream sequence ends
AdapterPullEnd ==
    /\ AtUpstream(adapter)
    /\ Emit(Pull(adapter, End))
    /\ consumed' = Append(consumed, End)
    /\ UNCHANGED <<storeVars, requestVars>>

\* the upstream sequence raises
AdapterPullRaise ==
    /\ AtUpstream(adapter)
    /\ \E e \in UpstreamExcs :
          /\ Emit(Pull(adapter, Raise(e)))
          /\ consumed' = Append(consumed, Raise(e))
    /\ UNCHANGED <<storeVars, requestVars>>


-----------------------------------------------------------------------------
(* The store: app/models and app/services.  Every service call commits.    *)

TaskIds == 1..MaxTasks
NoTask == 0                       \* task is None / task_id not given
Requests == 1..NumRequests

\* a Task row; status "free" is an id no row was ever given
NoRow == [status |-> "free", session_id |-> None, total_cost_usd |-> 0,
          total_input_tokens |-> 0, total_output_tokens |-> 0]
Live(tk, t) == t \in TaskIds /\ tk[t].status = "live"

\* Task(title=..., session_id=None); db.add; db.commit: a fresh id
FreshTaskId(tk) == CHOOSE t \in TaskIds :
                      tk[t].status = "free" /\ \A u \in TaskIds : u < t => tk[u].status # "free"
CanCreateTask(tk) == \E t \in TaskIds : tk[t].status = "free"
InsertTask(tk) == [tk EXCEPT ![FreshTaskId(tk)] = [NoRow EXCEPT !.status = "live"]]

\* db.query(Task).filter(Task.session_id == s).first(), NoTask when None
TaskBySession(tk, s) ==
    IF \E t \in TaskIds : Live(tk, t) /\ tk[t].session_id = s
    THEN CHOOSE t \in TaskIds : Live(tk, t) /\ tk[t].session_id = s
    ELSE NoTask

\* a store in which no other owner is ever found
OtherOwnerUnseen(tk, s, t) == NoTask

\* db.query(Task).filter(Task.session_id == s, Task.id != t).first()
OtherOwner(tk, s, t) ==
    IF \E u \in TaskIds : u # t /\ Live(tk, u) /\ tk[u].session_id = s
    THEN CHOOSE u \in TaskIds : u # t /\ Live(tk, u) /\ tk[u].session_id = s
    ELSE NoTask

\* EventService.get_max_sequence
RECURSIVE MaxSeq(_)
MaxSeq(rows) == IF rows = <<>> THEN -1
                ELSE LET m == MaxSeq(Tail(rows))
                     IN  IF Head(rows).sequence > m THEN Head(rows).sequence ELSE m
\* a cursor that starts at 0 whatever the task holds
GetMaxSequenceOfNothing(evs, t) == -1

GetMaxSequence(evs, t) == MaxSeq(evs[t])

\* EventService.save_event; turn and origin record which request wrote the
\* row and whether it is a synthetic user event or an adapter event
SaveEvent(evs, t, event_type, sequence, turn, origin) ==
    [evs EXCEPT ![t] = Append(@, [event_type |-> event_type, sequence |-> sequence,
                                  turn |-> turn, origin |-> origin])]

\* ConversationService.create_user_message / create_assistant_message rows
SaveConversation(cv, t, role, content, turn) ==
    [cv EXCEPT ![t] = Append(@, [role |-> role, content |-> content, turn |-> turn])]


\* a number or None as update_task_usage tests and adds it: None and 0
\* add nothing
Amount(v) == IF v.tag = "num" THEN v.val ELSE 0

\* an update that stores the run's figures in place of the sums
UpdateTaskUsageStoring(tk, t, cost_usd, input_tokens, output_tokens) ==
    [tk EXCEPT ![t].total_cost_usd = Amount(cost_usd),
               ![t].total_input_tokens = Amount(input_tokens),
               ![t].total_output_tokens = Amount(output_tokens)]

\* TaskService.update_task_usage
UpdateTaskUsage(tk, t, cost_usd, input_tokens, output_tokens) ==
    [tk EXCEPT ![t].total_cost_usd = @ + Amount(cost_usd),
               ![t].total_input_tokens = @ + Amount(input_tokens),
               ![t].total_output_tokens = @ + Amount(output_tokens)]

-----------------------------------------------------------------------------
(* Session reconciliation: app/services/session_service.py and the inline  *)
(* copy of it in the response endpoint.                                    *)

IntegrityError == Exc("IntegrityError", "UNIQUE constraint failed: tasks.session_id")
ObjectDeletedError == Exc("ObjectDeletedError", "instance has been deleted")
HTTPException == Exc("HTTPException", "404: Task not found")

\* task.session_id = s; db.commit(): Task.session_id is a unique column
CommitSessionId(tk, t, s) ==
    IF OtherOwner(tk, s, t) # NoTask THEN [tasks |-> tk, exc |-> IntegrityError]
    ELSE [tasks |-> [tk EXCEPT ![t].session_id = s], exc |-> NoExc]

\* SessionService.determine_session_id(task, request_session_id)
DetermineSessionId(tk, t, request_session_id) ==
    IF t # NoTask /\ tk[t].session_id # None THEN tk[t].session_id
    ELSE IF request_session_id # None THEN request_session_id
    ELSE None

\* SessionService.update_task_session_id(db, task, new_session_id)
UpdateTaskSessionId(tk, t, new_session_id) ==
    IF tk[t].session_id = None
    THEN IF OtherOwner(tk, new_session_id, t) # NoTask
         THEN [tasks |-> tk, ok |-> FALSE, exc |-> NoExc]
         ELSE LET c == CommitSessionId(tk, t, new_session_id)
              IN  [tasks |-> c.tasks, ok |-> TRUE, exc |-> c.exc]
    ELSE IF tk[t].session_id # new_session_id
    THEN [tasks |-> tk, ok |-> FALSE, exc |-> NoExc]
    ELSE [tasks |-> tk, ok |-> TRUE, exc |-> NoExc]

\* a choice that prefers the request's session id to the task's
SessionIdToUseOfRequest(tk, t, request_session_id) ==
    IF request_session_id # None THEN request_session_id
    ELSE IF t # NoTask /\ tk[t].session_id # None THEN tk[t].session_id
    ELSE None

\* response.event_generator: session_id_to_use
SessionIdToUse(tk, t, request_session_id) ==
    IF t # NoTask /\ tk[t].session_id # None THEN tk[t].session_id
    ELSE IF request_session_id # None THEN request_session_id
    ELSE None

\* a bind that follows the upstream when it reports another session
BindSessionIdFollowing(tk, t, new_session_id) ==
    IF tk[t].session_id = new_session_id
    THEN [tasks |-> tk, log |-> "info: session matches", exc |-> NoExc]
    ELSE IF OtherOwner(tk, new_session_id, t) # NoTask
    THEN [tasks |-> tk, log |-> "error: session already used", exc |-> NoExc]
    ELSE [tasks |-> [tk EXCEPT ![t].session_id = new_session_id],
          log |-> IF tk[t].session_id = None THEN "info: session saved"
                  ELSE "warning: session changed",
          exc |-> NoExc]

\* a bind that takes the session id whoever owns it
BindSessionIdTaking(tk, t, new_session_id) ==
    IF tk[t].session_id = None
    THEN [tasks |-> [tk EXCEPT ![t].session_id = new_session_id],
          log |-> "info: session saved", exc |-> NoExc]
    ELSE IF tk[t].session_id # new_session_id
    THEN [tasks |-> tk, log |-> "warning: session changed", exc |-> NoExc]
    ELSE [tasks |-> tk, log |-> "info: session matches", exc |-> NoExc]

\* a bind that takes every session id of a bound task for a change
BindSessionIdOnce(tk, t, new_session_id) ==
    IF tk[t].session_id = None
    THEN LET existing_task == OtherOwner(tk, new_session_id, t)
         IN  IF existing_task # NoTask
             THEN [tasks |-> tk, log |-> "error: session already used", exc |-> NoExc]
             ELSE LET c == CommitSessionId(tk, t, new_session_id)
                  IN  [tasks |-> c.tasks, log |-> "info: session saved", exc |-> c.exc]
    ELSE [tasks |-> tk, log |-> "warning: session changed", exc |-> NoExc]

\* response.event_generator: the bind of a newly extracted session id to
\* the run's task; log is the line it writes
BindSessionId(tk, t, new_session_id) ==
    IF tk[t].session_id = None
    THEN LET existing_task == OtherOwner(tk, new_session_id, t)
         IN  IF existing_task # NoTask
             THEN [tasks |-> tk, log |-> "error: session already used", exc |-> NoExc]
             ELSE LET c == CommitSessionId(tk, t, new_session_id)
                  IN  [tasks |-> c.tasks, log |-> "info: session saved", exc |-> c.exc]
    ELSE IF tk[t].session_id # new_session_id
    THEN [tasks |-> tk, log |-> "warning: session changed", exc |-> NoExc]
    ELSE [tasks |-> tk, log |-> "info: session matches", exc |-> NoExc]

-----------------------------------------------------------------------------
(* response.event_generator: the locals of one request                     *)

NewRequest(r) ==
    [pc |-> "idle", task_id |-> NoTask, session_id |-> None, task |-> NoTask,
     session_id_to_use |-> None, event_sequence |-> 0, new_session_id |-> None,
     session_id_sent |-> FALSE, user_message_saved |-> FALSE,
     run_started_saved |-> FALSE, assistant_message_id |-> NoId,
     assistant_content_parts |-> <<>>, cost_usd |-> PyNone, usage_info |-> PyNone,
     client |-> "none", adapter |-> NewAdapter(RunId(r)), turn |-> <<>>]

\* the three synthetic user events and the user Conversation row, written
\* with the cursor; c is [tasks, events, conversations, q, out, log, exc, skip]
SaveUserMessage(c, r) ==
    LET t == c.q.task
        n == c.q.event_sequence
        e1 == SaveEvent(c.events, t, "TextMessageStart", n, r, "user")
        e2 == SaveEvent(e1, t, "TextMessageContent", n + 1, r, "user")
        e3 == SaveEvent(e2, t, "TextMessageEnd", n + 2, r, "user")
    IN  [c EXCEPT !.conversations = SaveConversation(@, t, "user", <<>>, r),
                  !.events = e3,
                  !.q.event_sequence = n + 3,
                  !.q.user_message_saved = TRUE]

StartTypes == {"RunStarted", "TextMessageStart", "ThinkingStart", "ToolCallStart"}

\* a lazy creation that leaves the user message out
LazyCreateBare(c, ev, r) ==
    IF c.q.task = NoTask /\ ev.type \in StartTypes
    THEN [c EXCEPT !.tasks = InsertTask(c.tasks), !.q.task = FreshTaskId(c.tasks),
                   !.q.event_sequence = 0]
    ELSE c

\* lines 160-202: no task yet and a response starts: create the task, then
\* save the user message as its first events
LazyCreate(c, ev, r) ==
    IF c.q.task = NoTask /\ ev.type \in StartTypes
    THEN LET tk == InsertTask(c.tasks)
             c1 == [c EXCEPT !.tasks = tk, !.q.task = FreshTaskId(c.tasks),
                             !.q.event_sequence = 0]
         IN  IF ~c.q.user_message_saved THEN SaveUserMessage(c1, r) ELSE c1
    ELSE c

\* a persistence that leaves the custom events out
PersistEventOfRun(c, ev, r) ==
    IF c.q.task = NoTask \/ ev.cls = "CustomEvent" THEN c
    ELSE IF ~Live(c.tasks, c.q.task) THEN [c EXCEPT !.exc = ObjectDeletedError]
    ELSE IF ev.type = "RunStarted"
    THEN LET c1 == IF ~c.q.run_started_saved
                   THEN [c EXCEPT !.events = SaveEvent(@, c.q.task, "RunStarted",
                                                       c.q.event_sequence, r, "response"),
                                  !.q.event_sequence = @ + 1,
                                  !.q.run_started_saved = TRUE]
                   ELSE c
         IN  [c1 EXCEPT !.out = Append(@, ev), !.skip = TRUE]
    ELSE [c EXCEPT !.events = SaveEvent(@, c.q.task, ev.type, c.q.event_sequence,
                                        r, "response"),
                   !.q.event_sequence = @ + 1]

\* lines 204-238: persist the event with the cursor; RunStarted once, and
\* the loop continues right after it was streamed
PersistEvent(c, ev, r) ==
    IF c.q.task = NoTask \/ ev.type = "SessionInfo" THEN c
    ELSE IF ~Live(c.tasks, c.q.task) THEN [c EXCEPT !.exc = ObjectDeletedError]
    ELSE IF ev.type = "RunStarted"
    THEN LET c1 == IF ~c.q.run_started_saved
                   THEN [c EXCEPT !.events = SaveEvent(@, c.q.task, "RunStarted",
                                                       c.q.event_sequence, r, "response"),
                                  !.q.event_sequence = @ + 1,
                                  !.q.run_started_saved = TRUE]
                   ELSE c
         IN  [c1 EXCEPT !.out = Append(@, ev), !.skip = TRUE]
    ELSE [c EXCEPT !.events = SaveEvent(@, c.q.task, ev.type, c.q.event_sequence,
                                        r, "response"),
                   !.q.event_sequence = @ + 1]

\* an extraction that reads the session id of the result summary only
ExtractSessionIdOfResult(ev) ==
    IF ev.cls = "CustomEvent" /\ ev.type = "ResultMessage"
    THEN DictGet(ev.data.session_id) ELSE None

\* lines 245-268: the session id an event carries, None when it has none
ExtractSessionId(ev) ==
    IF ev.cls # "CustomEvent" THEN None
    ELSE IF ev.type = "SystemMessage"
    THEN IF ev.data.subtype = "init" THEN DictGet(ev.data.session_id) ELSE None
    ELSE IF ev.type = "ResultMessage"
    THEN DictGet(ev.data.session_id)
    ELSE None

\* a reconciliation that, on a collision, moves the run to the task that
\* owns the session and takes the cursor from that task
ReconcileSwitching(c, ev, r) ==
    LET s == ExtractSessionId(ev)
    IN  IF c.q.new_session_id # None \/ s = None THEN c
        ELSE LET c1 == [c EXCEPT !.q.new_session_id = s]
             IN  IF c.q.task # NoTask
                 THEN IF ~Live(c.tasks, c.q.task)
                      THEN [c1 EXCEPT !.exc = ObjectDeletedError]
                      ELSE LET b == BindSessionId(c.tasks, c.q.task, s)
                               owner == OtherOwner(c.tasks, s, c.q.task)
                               c2 == [c1 EXCEPT !.tasks = b.tasks, !.exc = b.exc,
                                                !.log = Append(@, [line |-> b.log,
                                                                   task |-> c.q.task,
                                                                   session |-> s])]
                           IN  IF b.log = "error: session already used"
                               THEN [c2 EXCEPT !.q.task = owner,
                                               !.q.event_sequence =
                                                   GetMaxSequence(c.events, owner) + 1]
                               ELSE c2
                 ELSE [c1 EXCEPT !.q.task = TaskBySession(c.tasks, s)]

\* a reconciliation of every session id seen, not of the first alone
ReconcileEach(c, ev, r) ==
    LET s == ExtractSessionId(ev)
    IN  IF s = None THEN c
        ELSE LET c1 == [c EXCEPT !.q.new_session_id = s]
             IN  IF c.q.task # NoTask
                 THEN IF ~Live(c.tasks, c.q.task)
                      THEN [c1 EXCEPT !.exc = ObjectDeletedError]
                      ELSE LET b == BindSessionId(c.tasks, c.q.task, s)
                           IN  [c1 EXCEPT !.tasks = b.tasks, !.exc = b.exc,
                                          !.log = Append(@, [line |-> b.log,
                                                             task |-> c.q.task,
                                                             session |-> s])]
                 ELSE [c1 EXCEPT !.q.task = TaskBySession(c.tasks, s)]

\* lines 245-311: the first session id seen is bound to the task, or, with
\* no task yet, the task that owns it is looked up
Reconcile(c, ev, r) ==
    LET s == ExtractSessionId(ev)
    IN  IF c.q.new_session_id # None \/ s = None THEN c
        ELSE LET c1 == [c EXCEPT !.q.new_session_id = s]
             IN  IF c.q.task # NoTask
                 THEN IF ~Live(c.tasks, c.q.task)
                      THEN [c1 EXCEPT !.exc = ObjectDeletedError]
                      ELSE LET b == BindSessionId(c.tasks, c.q.task, s)
                           IN  [c1 EXCEPT !.tasks = b.tasks, !.exc = b.exc,
                                          !.log = Append(@, [line |-> b.log,
                                                             task |-> c.q.task,
                                                             session |-> s])]
                 ELSE [c1 EXCEPT !.q.task = TaskBySession(c.tasks, s)]

\* a collection that keeps the text of the earlier messages
CollectKeeping(c, ev) ==
    LET c1 == IF ev.type = "TextMessageStart" /\ ev.role = "assistant"
              THEN [c EXCEPT !.q.assistant_message_id = ev.id]
              ELSE c
        c2 == IF ev.type = "TextMessageContent" /\ c1.q.assistant_message_id # NoId
                 /\ ev.id = c1.q.assistant_message_id /\ ev.delta # <<>>
              THEN [c1 EXCEPT !.q.assistant_content_parts = Append(@, ev.delta)]
              ELSE c1
    IN  IF ev.type = "RunFinished" /\ ev.cls = "RunFinished"
        THEN [c2 EXCEPT !.q.cost_usd = ev.total_cost_usd,
                        !.q.usage_info = IF ev.usage.tag = "dict" THEN ev.usage ELSE @]
        ELSE c2

\* lines 313-337: the assistant text and the usage of RunFinished
Collect(c, ev) ==
    LET c1 == IF ev.type = "TextMessageStart" /\ ev.role = "assistant"
              THEN [c EXCEPT !.q.assistant_message_id = ev.id,
                             !.q.assistant_content_parts = <<>>]
              ELSE c
        c2 == IF ev.type = "TextMessageContent" /\ c1.q.assistant_message_id # NoId
                 /\ ev.id = c1.q.assistant_message_id /\ ev.delta # <<>>
              THEN [c1 EXCEPT !.q.assistant_content_parts = Append(@, ev.delta)]
              ELSE c1
    IN  IF ev.type = "RunFinished" /\ ev.cls = "RunFinished"
        THEN [c2 EXCEPT !.q.cost_usd = ev.total_cost_usd,
                        !.q.usage_info = IF ev.usage.tag = "dict" THEN ev.usage ELSE @]
        ELSE c2

\* usage_data.get(key) of the usage collected from RunFinished, None when
\* there is no usage or no such key
Collected(usage_info, key) ==
    IF usage_info.tag = "dict" /\ key \in DOMAIN usage_info.val
    THEN PyNum(usage_info.val[key]) ELSE PyNone

\* ConversationService.create_assistant_message with what the loop
\* collected: the row, and the task's counters when a figure is given
CreateAssistantMessage(c, t, content, r) ==
    LET cost_usd == IF c.q.cost_usd # PyNone THEN c.q.cost_usd
                    ELSE Collected(c.q.usage_info, "total_cost_usd")
        input_tokens == Collected(c.q.usage_info, "input_tokens")
        output_tokens == Collected(c.q.usage_info, "output_tokens")
    IN  [c EXCEPT !.conversations = SaveConversation(@, t, "assistant", content, r),
                  !.tasks = IF Truthy(cost_usd) \/ Truthy(input_tokens)
                               \/ Truthy(output_tokens)
                            THEN UpdateTaskUsage(@, t, cost_usd, input_tokens,
                                                 output_tokens)
                            ELSE @]

\* the SessionInfo event the endpoint adds, once
SessionInfo(s, t) == CustomEvent("SessionInfo", [D0 EXCEPT !.session_id = s, !.task_id = t])

\* lines 339-349: SessionInfo once, then the event itself
Deliver(c, ev) ==
    IF c.q.new_session_id # None /\ ~c.q.session_id_sent /\ ev.type # "RunStarted"
    THEN [c EXCEPT !.out = @ \o <<SessionInfo(c.q.new_session_id, c.q.task), ev>>,
                   !.q.session_id_sent = TRUE]
    ELSE [c EXCEPT !.out = Append(@, ev)]

\* the body of the loop for one event of the adapter
HandleEvent(c, ev, r) ==
    LET c1 == PersistEvent(LazyCreate(c, ev, r), ev, r)
        c2 == Reconcile(c1, ev, r)
    IN  IF c1.exc # NoExc \/ c1.skip THEN c1
        ELSE IF c2.exc # NoExc THEN c2
        ELSE Deliver(Collect(c2, ev), ev)


-----------------------------------------------------------------------------
(* response.event_generator: the steps of one request.  The coroutine runs *)
(* without interruption between two suspension points (await, yield).      *)

Ctx(r) == [tasks |-> tasks, events |-> events, conversations |-> conversations,
           q |-> req[r], out |-> <<>>, log |-> <<>>, exc |-> NoExc, skip |-> FALSE]

\* a generator that returns without its finally clause
ReturnedAsIs(q, r) ==
    [NewRequest(r) EXCEPT !.pc = "done", !.task_id = q.task_id, !.client = q.client]

\* finally: disconnect the client if there is one.  The generator has
\* returned: of its frame only the request and the client's fate remain.
Returned(q, r) ==
    [NewRequest(r) EXCEPT !.pc = "done", !.task_id = q.task_id,
                          !.client = IF q.client = "none" THEN "none" ELSE "disconnected"]

\* a handler that ends the stream without an event
HandlerSilent(c, r) == [c EXCEPT !.q = Returned(@, r)]

\* except Exception as e: a RunError with a new uuid; then finally
Handler(c, r) ==
    [c EXCEPT !.out = Append(@, RunError(HandlerRunId(r), c.exc.msg, None)),
              !.q = Returned(@, r)]

\* the step's effects become the new state
Commit(c0, r) ==
    LET c == IF c0.exc # NoExc THEN Handler(c0, r) ELSE c0
    IN  /\ tasks' = c.tasks
        /\ events' = c.events
        /\ conversations' = c.conversations
        /\ req' = [req EXCEPT ![r] = c.q]
        /\ sse' = [sse EXCEPT ![r] = @ \o c.out]
        /\ log' = [log EXCEPT ![r] = @ \o c.log]

\* SessionService.find_task_by_id_or_session: a task id that finds no row
\* falls through to the lookup by session id
FindTaskByIdOrSession(tk, task_id, session_id) ==
    IF task_id # NoTask /\ Live(tk, task_id) THEN task_id
    ELSE IF session_id # None THEN TaskBySession(tk, session_id)
    ELSE NoTask

\* a resolution that asks the session id first
ResolveTaskBySessionFirst(tk, task_id, session_id) ==
    IF session_id # None /\ TaskBySession(tk, session_id) # NoTask
    THEN TaskBySession(tk, session_id)
    ELSE task_id

\* lines 51-63: the task of a request whose task id, if it names one, was
\* found by get_task
ResolveTask(tk, task_id, session_id) ==
    IF task_id # NoTask THEN task_id
    ELSE IF session_id # None THEN TaskBySession(tk, session_id)
    ELSE NoTask

\* task ids a client can name: those ever issued, and one that never was
NameableTaskIds(tk) ==
    {t \in TaskIds : tk[t].status # "free"}
        \cup (IF CanCreateTask(tk) THEN {FreshTaskId(tk)} ELSE {})

\* lines 47-101: resolve the task, choose the resumption id, create the
\* client; suspended in client.connect().  turn is what the upstream will
\* deliver when it is scripted.
BeginTurn(r, turn) ==
    /\ req[r].pc = "idle"
    /\ \A p \in Requests : p < r => req[p].pc # "idle"
    /\ \E task_id \in {NoTask} \cup NameableTaskIds(tasks), session_id \in {None} \cup Sessions :
          LET c == Ctx(r)
              found == ResolveTask(tasks, task_id, session_id)
              q1 == [c.q EXCEPT !.task_id = task_id, !.session_id = session_id,
                                !.turn = turn]
          IN  IF task_id # NoTask /\ ~Live(tasks, task_id)
              THEN Commit([c EXCEPT !.q = q1, !.exc = HTTPException], r)
              ELSE Commit([c EXCEPT !.q = [q1 EXCEPT
                              !.task = found,
                              !.session_id_to_use = SessionIdToUse(tasks, found, session_id),
                              !.client = "created",
                              !.pc = "connect"]], r)
    /\ UNCHANGED adapterVars

\* a request whose upstream delivers what StreamMessage chooses
Begin(r) == BeginTurn(r, <<>>)

\* lines 103-148: the cursor starts after the task's last event, and the
\* user message of an existing task is saved; suspended in client.query()
Connected(r) ==
    /\ req[r].pc = "connect"
    /\ LET c == Ctx(r)
           t == c.q.task
           \* request.session_id and session_id_to_use are not read again
           c1 == [c EXCEPT !.q.pc = "query", !.q.client = "connected",
                           !.q.session_id = None, !.q.session_id_to_use = None]
           c2 == [c1 EXCEPT !.q.event_sequence = GetMaxSequence(events, t) + 1]
       IN  IF t = NoTask THEN Commit(c1, r)
           ELSE IF Live(tasks, t) THEN Commit(SaveUserMessage(c2, r), r)
           ELSE Commit([c2 EXCEPT
                           !.conversations = SaveConversation(@, t, "user", <<>>, r),
                           !.exc = ObjectDeletedError], r)
    /\ UNCHANGED adapterVars

\* an await of the upstream client raises (connect or query)
ClientFails(r) ==
    /\ req[r].pc \in {"connect", "query"}
    /\ Commit([Ctx(r) EXCEPT !.exc = Exc("CLIConnectionError", "lost")], r)
    /\ UNCHANGED adapterVars

\* what the adapter's generator yielded is handled by the loop body
Handle(r, y) ==
    LET c == [Ctx(r) EXCEPT !.q.adapter = y.a, !.q.pc = "stream"]
    IN  /\ (c.q.task = NoTask /\ y.ev.type \in StartTypes) => CanCreateTask(tasks)
        /\ IF y.ev = NoEvent THEN Commit(c, r) ELSE Commit(HandleEvent(c, y.ev, r), r)

\* lines 148-219: the query was sent; the adapter yields RunStarted
Queried(r) ==
    /\ req[r].pc = "query"
    /\ Handle(r, Start(req[r].adapter))
    /\ UNCHANGED adapterVars

\* the next event of the message the adapter is converting
StreamResume(r) ==
    /\ req[r].pc = "stream"
    /\ InConverter(req[r].adapter)
    /\ Handle(r, Resume(req[r].adapter))
    /\ UNCHANGED adapterVars


\* the messages the upstream delivers to the response endpoint
TurnMessages == {SystemInit(s) : s \in Sessions} \cup {AssistantText(2)}

\* the upstream delivers a message
StreamMessage(r) ==
    /\ req[r].pc = "stream"
    /\ AtUpstream(req[r].adapter)
    /\ req[r].adapter.nmsgs < MaxTurnMsgs
    /\ \E m \in TurnMessages : Handle(r, Pull(req[r].adapter, Msg(m)))
    /\ UNCHANGED adapterVars

\* the upstream sequence ends: RunFinished (or the RunError of the summary)
StreamEnd(r) ==
    /\ req[r].pc = "stream"
    /\ AtUpstream(req[r].adapter)
    /\ Handle(r, Pull(req[r].adapter, End))
    /\ UNCHANGED adapterVars

\* the upstream sequence raises: the adapter yields RunError
StreamRaise(r) ==
    /\ req[r].pc = "stream"
    /\ AtUpstream(req[r].adapter)
    /\ Handle(r, Pull(req[r].adapter, Raise(Exc("CLIConnectionError", "lost"))))
    /\ UNCHANGED adapterVars

\* the client goes away while the generator is suspended: the generator is
\* closed at its await or yield, which no "except Exception" catches, and
\* finally disconnects the upstream client
Cancel(r) ==
    /\ req[r].pc \in {"connect", "query", "stream"}
    /\ Commit([Ctx(r) EXCEPT !.q = [Returned(@, r) EXCEPT !.pc = "cancelled"]], r)
    /\ UNCHANGED adapterVars

\* a message that carries a text and the usage of its step
AssistantSpend(n) == [M0 EXCEPT !.cls = "AssistantMessage", !.id = UpId(8),
                                !.content = PyList(<<TextBlock(PyStr(Text(2)))>>),
                                !.usage = PyDict([input_tokens |-> n,
                                                  output_tokens |-> 1])]

\* what the upstream may deliver in one turn, when the turns follow one
\* another
Turns ==
    {<<>>, <<SystemInit("S1")>>, <<SystemInit("S2")>>, <<AssistantText(2)>>,
     <<AssistantBlank>>, <<AssistantUsage(UpId(7), 10)>>, <<AssistantCalls>>,
     <<AssistantSpend(3)>>,
     <<SystemInit("S1"), AssistantText(2)>>,
     <<AssistantText(2), AssistantText(11)>>,
     <<AssistantSpend(10), Result("S1", PyNum(2), PyNone)>>,
     <<SystemInit("S1"), AssistantSpend(3), Result("S1", PyNum(2), PyNone)>>,
     <<SystemInit("S1"), Result("S2", PyNone, PyNone)>>,
     <<UserEcho>>, <<UserBlocks>>}
SeqTurns == {turn \in Turns : Len(turn) <= MaxSeqMsgs}

\* the upstream delivers the next message of the turn
SeqStreamMessage(r) ==
    /\ req[r].pc = "stream"
    /\ AtUpstream(req[r].adapter)
    /\ req[r].adapter.nmsgs < Len(req[r].turn)
    /\ Handle(r, Pull(req[r].adapter, Msg(req[r].turn[req[r].adapter.nmsgs + 1])))
    /\ UNCHANGED adapterVars

\* the upstream sequence ends after the last message of the turn
SeqStreamEnd(r) ==
    /\ req[r].pc = "stream"
    /\ AtUpstream(req[r].adapter)
    /\ req[r].adapter.nmsgs = Len(req[r].turn)
    /\ Handle(r, Pull(req[r].adapter, End))
    /\ UNCHANGED adapterVars

\* ''.join(parts).strip() is empty
RECURSIVE Join(_)
Join(parts) == IF parts = <<>> THEN <<>> ELSE Head(parts) \o Join(Tail(parts))
Blank(text) == \A i \in 1..Len(text) : text[i] = 32

\* TaskService.delete_task: the row, and by cascade its events and
\* conversations
DeleteTask(c, t) ==
    [c EXCEPT !.tasks[t] = [NoRow EXCEPT !.status = "deleted"],
              !.events[t] = <<>>,
              !.conversations[t] = <<>>]

AssistantRows(cv, t) == {i \in 1..Len(cv[t]) : cv[t][i].role = "assistant"}

\* lines 351-399: the adapter's stream is exhausted: save the assistant
\* message, or delete the task this request made if it has none; disconnect
Finalize(r) ==
    /\ req[r].pc = "stream"
    /\ req[r].adapter.state \in {"Finished", "Errored"}
    /\ LET c == Ctx(r)
           t == c.q.task
           content == Join(c.q.assistant_content_parts)
           done == [c EXCEPT !.q = Returned(@, r)]
       IN  IF t # NoTask /\ c.q.assistant_content_parts # <<>>
           THEN IF Blank(content) THEN Commit(done, r)
                ELSE IF ~Live(tasks, t) THEN Commit([c EXCEPT !.exc = ObjectDeletedError], r)
                ELSE Commit([CreateAssistantMessage(c, t, content, r)
                                EXCEPT !.q = Returned(@, r)], r)
           ELSE IF t # NoTask /\ c.q.task_id = NoTask
           THEN IF ~Live(tasks, t) THEN Commit([c EXCEPT !.exc = ObjectDeletedError], r)
                ELSE IF AssistantRows(conversations, t) = {}
                THEN Commit(DeleteTask(done, t), r)
                ELSE Commit(done, r)
           ELSE Commit(done, r)
    /\ UNCHANGED adapterVars

\* POST /tasks: TaskService.create_task
CreateTask ==
    /\ CanCreateTask(tasks)
    /\ tasks' = InsertTask(tasks)
    /\ UNCHANGED <<events, conversations, requestVars, adapterVars>>

-----------------------------------------------------------------------------
(* Specifications *)

StoreInit ==
    /\ tasks = [t \in TaskIds |-> NoRow]
    /\ events = [t \in TaskIds |-> <<>>]
    /\ conversations = [t \in TaskIds |-> <<>>]

RequestInit ==
    /\ req = [r \in Requests |-> NewRequest(r)]
    /\ sse = [r \in Requests |-> <<>>]
    /\ log = [r \in Requests |-> <<>>]

Init == AdapterInit /\ StoreInit /\ RequestInit

RequestStep(r) ==
    \/ Begin(r)
    \/ Connected(r)
    \/ ClientFails(r)
    \/ Queried(r)
    \/ StreamResume(r)
    \/ StreamMessage(r)
    \/ StreamEnd(r)
    \/ StreamRaise(r)
    \/ Cancel(r)
    \/ Finalize(r)

InFlight(r) == req[r].pc \notin {"idle", "done", "cancelled"}

\* the response endpoint under concurrent requests, and the tasks endpoint
Next ==
    \/ CreateTask
    \/ \E r \in Requests : RequestStep(r)

Spec == Init /\ [][Next]_vars

\* the same, with requests processed one after another: a request is
\* received only when no other is in flight
Idle == \A r \in Requests : ~InFlight(r)
SeqCreateTask == Idle /\ CreateTask
SeqBegin(r) == Idle /\ \E turn \in SeqTurns : BeginTurn(r, turn)

NextSeq ==
    \/ SeqCreateTask
    \/ \E r \in Requests :
          \/ SeqBegin(r)
          \/ Connected(r)
          \/ ClientFails(r)
          \/ Queried(r)
          \/ StreamResume(r)
          \/ SeqStreamMessage(r)
          \/ SeqStreamEnd(r)
          \/ StreamRaise(r)
          \/ Cancel(r)
          \/ Finalize(r)

SpecSeq == Init /\ [][NextSeq]_vars

\* one run of the adapter alone
NextAdapter ==
    \/ AdapterStart
    \/ AdapterResume
    \/ AdapterPullMessage
    \/ AdapterPullEnd
    \/ AdapterPullRaise

SpecAdapter == Init /\ [][NextAdapter]_vars

\* the same run with a consumer that keeps iterating and an upstream that
\* delivers, ends or raises when it is awaited
FairSpecAdapter == SpecAdapter /\ WF_vars(NextAdapter)

\* the content blocks an assistant message may hold: every type tag with
\* every combination of the fields the converter looks at, and the four
\* block classes of the SDK
Blocks ==
    {[B0 EXCEPT !.type = ty, !.thinking = th, !.text = tx, !.id = id,
                !.name = ni[1], !.input = ni[2],
                !.tool_use_id = tc[1], !.content = tc[2]] :
        ty \in {None, "thinking", "text", "tool_use", "tool_result", "image"},
        th \in {PyAbsent, PyStr(Text(1))},
        tx \in {PyAbsent, PyStr(Text(2))},
        id \in {AbsentId, UpId(1)},
        ni \in {<<Absent, PyAbsent>>, <<"Read", PyObj(Text(3))>>},
        tc \in {<<AbsentId, PyAbsent>>, <<UpId(2), PyStr(Text(1))>>}}
      \cup {TextBlock(PyStr(Text(2))), ThinkingBlock(PyStr(Text(1))),
            ToolUseBlock(UpId(1), "Read", PyObj(Text(3))),
            ToolResultBlock(UpId(2), PyStr(Text(1)), PyAbsent)}

\* an assistant message of one block
AssistantOf(block) == [M0 EXCEPT !.cls = "AssistantMessage", !.content = PyList(<<block>>)]

\* the upstream delivers its only message, an assistant message of one block
BlockPullMessage ==
    /\ AtUpstream(adapter)
    /\ adapter.nmsgs = 0
    /\ \E block \in Blocks :
          /\ Emit(Pull(adapter, Msg(AssistantOf(block))))
          /\ consumed' = Append(consumed, Msg(AssistantOf(block)))
    /\ UNCHANGED <<storeVars, requestVars>>

\* one run of the adapter on one content block
NextBlocks ==
    \/ AdapterStart
    \/ AdapterResume
    \/ BlockPullMessage
    \/ AdapterPullEnd

SpecBlocks == Init /\ [][NextBlocks]_vars


-----------------------------------------------------------------------------
(* Properties of one run of the adapter (SpecAdapter)                      *)

Terminal == {"RunFinished", "RunError"}
Ended(a) == a.state \in {"Finished", "Errored"}
Positions(seq, classes) == {i \in 1..Len(seq) : seq[i].cls \in classes}

\* C1: whatever the upstream delivers (nothing, recognized and unrecognized
\* messages, a normal end or an exception), the events emitted so far start
\* with the only RunStarted, a RunFinished or RunError is emitted exactly
\* when the run has ended, there is one of them and it is the last event.
C1_LifecycleBrackets ==
    /\ adapter.state = "NotStarted" <=> emitted = <<>>
    /\ Positions(emitted, {"RunStarted"}) = (IF emitted = <<>> THEN {} ELSE {1})
    /\ Positions(emitted, Terminal) = (IF Ended(adapter) THEN {Len(emitted)} ELSE {})
    /\ Ended(adapter) => Len(emitted) >= 2
    /\ adapter.state = "Finished" => emitted[Len(emitted)].cls = "RunFinished"
    /\ adapter.state = "Errored" => emitted[Len(emitted)].cls = "RunError"

\* a run that converted an unrecognized message and ended normally
C1_Witness ==
    /\ adapter.state = "Finished"
    /\ \E i \in 1..Len(consumed) : consumed[i] = Msg(StreamEvent)
    /\ \E i \in 1..Len(emitted) : emitted[i].cls = "CustomEvent" /\ emitted[i].type = "StreamEvent"
    /\ emitted[Len(emitted)].cls = "RunFinished"

\* the exception a failed run stopped at: the one the upstream raised, or
\* the one raised while the last message was observed or converted, or by
\* the summary after the last message
Failure ==
    LET last == consumed[Len(consumed)]
        k == adapter.nmsgs
        o == ObserveMessage(NewAdapter(adapter.run_id), last.msg, k)
    IN  IF last.kind = "raise" THEN last.exc
        ELSE IF last.kind = "end" THEN TypeError
        ELSE IF o.exc # NoExc THEN o.exc
        ELSE ConvertMessage(last.msg, k).exc

\* C2: when consuming the upstream raises (the upstream itself, the
\* bookkeeping of a message or a converter), the run ends with one
\* RunError that carries the adapter's run id and the exception's message
\* and kind, no RunFinished is emitted, and every step only appends to what
\* was emitted: nothing is retracted and nothing follows the RunError.
C2_SingleRunError ==
    /\ [](adapter.state = "Errored" =>
            /\ consumed # <<>>
            /\ Failure # NoExc
            /\ emitted[Len(emitted)] = RunError(adapter.run_id, Failure.msg, Failure.type)
            /\ Positions(emitted, {"RunError"}) = {Len(emitted)}
            /\ Positions(emitted, {"RunFinished"}) = {})
    /\ [][/\ Len(emitted') >= Len(emitted)
          /\ SubSeq(emitted', 1, Len(emitted)) = emitted
          /\ adapter.state = "Errored" => emitted' = emitted]_vars

\* a converter raised in the middle of a message, after events of it and
\* of an earlier message were emitted
C2_Witness ==
    /\ adapter.state = "Errored"
    /\ Len(consumed) = 2
    /\ consumed[2] = Msg(AssistantBadText)
    /\ emitted[Len(emitted)].error_type = "TypeError"
    /\ Len(emitted) >= 4

-----------------------------------------------------------------------------
(* Properties of the event records of a task, requests being processed one *)
(* after another (SpecSeq).  events[t] lists the records of task t in the  *)
(* order they were committed.                                              *)

\* C3: the sequence values of the records of a task are 0, 1, ..., n-1 in
\* the order the records were committed: no gap and no repeat, each record
\* (synthetic user event, RunStarted, adapter event) taking one value.
C3_GapFreeSequence ==
    \A t \in TaskIds : \A i \in 1..Len(events[t]) : events[t][i].sequence = i - 1

\* two requests have completed on one task, the second continuing after the
\* records of the first
C3_Witness ==
    \E t \in TaskIds :
        /\ \A r \in Requests : req[r].pc = "done" /\ req[r].task_id = t
        /\ \A r \in Requests : \E i \in 1..Len(events[t]) :
               events[t][i].turn = r /\ events[t][i].origin = "response"
        /\ Len(events[t]) >= 10

\* the records request r wrote to task t, as positions of events[t]
TurnRows(t, r) == {i \in 1..Len(events[t]) : events[t][i].turn = r}
UserRowTypes == <<"TextMessageStart", "TextMessageContent", "TextMessageEnd">>

\* C5: a turn that has records on a task has the three synthetic user
\* records (Start, Content, End) as its first records, with sequence numbers
\* below those of all its response records, RunStarted included, whether
\* the task existed or was created on the first response event; and the
\* records of an earlier turn all precede those of a later turn, in
\* position and in sequence number.
C5_UserBeforeResponse ==
    \A t \in TaskIds :
        /\ \A r \in Requests : TurnRows(t, r) # {} =>
               LET first == CHOOSE i \in TurnRows(t, r) : \A j \in TurnRows(t, r) : i <= j
               IN  /\ first + 2 <= Len(events[t])
                   /\ \A d \in 0..2 :
                          /\ events[t][first + d].turn = r
                          /\ events[t][first + d].origin = "user"
                          /\ events[t][first + d].event_type = UserRowTypes[d + 1]
                   /\ \A j \in TurnRows(t, r) :
                          j > first + 2 =>
                              /\ events[t][j].origin = "response"
                              /\ events[t][j].sequence > events[t][first + 2].sequence
        /\ \A i, j \in 1..Len(events[t]) :
               events[t][i].turn < events[t][j].turn =>
                   i < j /\ events[t][i].sequence < events[t][j].sequence

\* a lazily created task holds a completed turn with a response, and a
\* second turn on it has written its user records and its RunStarted
C5_Witness ==
    \E t \in TaskIds :
        /\ req[1].pc = "done" /\ req[1].task_id = NoTask
        /\ req[2].pc = "stream" /\ req[2].task = t
        /\ \E i \in TurnRows(t, 1) : events[t][i].event_type = "RunStarted"
        /\ \E i \in TurnRows(t, 2) : events[t][i].event_type = "RunStarted"
        /\ conversations[t] # <<>>

-----------------------------------------------------------------------------
(* Properties under concurrent requests (Spec)                             *)

\* C4: with requests in flight concurrently, the records of a task have
\* pairwise distinct sequence values, increasing in the order the records
\* were committed.
C4_DistinctInCommitOrder ==
    \A t \in TaskIds : \A i, j \in 1..Len(events[t]) :
        i < j => events[t][i].sequence < events[t][j].sequence

\* the line a step added to the log of request r, if it added one
Logged(r) == Len(log'[r]) > Len(log[r])
NewLine == [r \in Requests |-> log'[r][Len(log'[r])]]
CollisionLine == "error: session already used"

\* C6: with session S owned by task A and task B unbound, an attempt to
\* bind S to B changes the binding of no task and reports the collision:
\* update_task_session_id returns False, the endpoint's bind writes the
\* error line; and a step of a run that writes that line found such A and B
\* and left every binding as it was.
C6_CollisionLeavesBindings ==
    /\ [](\A A, B \in TaskIds :
             (A # B /\ Live(tasks, A) /\ Live(tasks, B)
                /\ tasks[A].session_id # None /\ tasks[B].session_id = None) =>
                LET S == tasks[A].session_id
                    u == UpdateTaskSessionId(tasks, B, S)
                    b == BindSessionId(tasks, B, S)
                IN  /\ u.tasks = tasks /\ ~u.ok /\ u.exc = NoExc
                    /\ b.tasks = tasks /\ b.log = CollisionLine /\ b.exc = NoExc)
    /\ [][\A r \in Requests :
             (Logged(r) /\ NewLine[r].line = CollisionLine) =>
                LET B == NewLine[r].task
                    S == NewLine[r].session
                IN  /\ tasks' = tasks
                    /\ tasks[B].session_id = None
                    /\ \E A \in TaskIds \ {B} : Live(tasks, A) /\ tasks[A].session_id = S]_vars

\* a run on task B reported the session that task A owns: the error line is
\* in its log, A still owns the session and B has none
C6_Witness ==
    \E r \in Requests : \E i \in 1..Len(log[r]) :
        LET B == log[r][i].task
            S == log[r][i].session
        IN  /\ log[r][i].line = CollisionLine
            /\ Live(tasks, B) /\ tasks[B].session_id = None
            /\ \E A \in TaskIds \ {B} : Live(tasks, A) /\ tasks[A].session_id = S

\* C8: whatever the interleaving of task creation, lazy creation, session
\* discovery and bind, no two tasks have the same session id.
C8_SessionOwnedOnce ==
    \A A, B \in TaskIds :
        (A # B /\ Live(tasks, A) /\ Live(tasks, B) /\ tasks[A].session_id # None) =>
            tasks[A].session_id # tasks[B].session_id

\* two runs in flight at once were told the same session: one bound it to
\* its task, the other found it taken
C8_Witness ==
    \E p, r \in Requests : \E i \in 1..Len(log[p]) : \E j \in 1..Len(log[r]) :
        /\ p # r
        /\ req[p].pc = "stream" /\ req[r].pc = "stream"
        /\ log[p][i].line = "info: session saved"
        /\ log[r][j].line = CollisionLine
        /\ log[p][i].session = log[r][j].session
        /\ log[p][i].task # log[r][j].task
        /\ tasks[log[p][i].task].session_id = log[p][i].session

ChangedLine == "warning: session changed"

\* C9: a session id, once bound to a task, stays: no step gives a task that
\* has one another value or none while the task exists; a run that is told
\* a different session id S2 for a task bound to S writes the warning and
\* leaves S in place, and update_task_session_id returns False for it and
\* changes nothing.
C9_BoundSessionStays ==
    /\ [][\A t \in TaskIds :
             (Live(tasks, t) /\ tasks[t].session_id # None /\ Live(tasks', t)) =>
                 tasks'[t].session_id = tasks[t].session_id]_vars
    /\ [][\A r \in Requests :
             (Logged(r) /\ NewLine[r].line = ChangedLine) =>
                 LET t == NewLine[r].task
                 IN  /\ tasks[t].session_id \notin {None, NewLine[r].session}
                     /\ tasks' = tasks]_vars
    /\ [](\A t \in TaskIds : \A S2 \in Sessions :
             (Live(tasks, t) /\ tasks[t].session_id \notin {None, S2}) =>
                 LET u == UpdateTaskSessionId(tasks, t, S2)
                 IN  u.tasks = tasks /\ ~u.ok /\ u.exc = NoExc)

\* a run on a task bound to one session was told another one, and the task
\* still has the first
C9_Witness ==
    \E r \in Requests : \E i \in 1..Len(log[r]) :
        LET t == log[r][i].task
        IN  /\ log[r][i].line = ChangedLine
            /\ Live(tasks, t)
            /\ tasks[t].session_id \notin {None, log[r][i].session}

\* the precedence of the resumption id: the task's, else the request's,
\* else none
Precedence(task_session_id, request_session_id) ==
    IF task_session_id # None THEN task_session_id ELSE request_session_id

\* C10: the resumption id a request chooses is the session id of the task
\* it resolved when that task has one, whatever session id the request
\* carries; otherwise the request's session id; otherwise none.
\* determine_session_id returns the same for every task of the store and
\* every request session id.
C10_ResumptionId ==
    /\ [][\A r \in Requests :
             (req[r].pc = "idle" /\ req'[r].pc = "connect") =>
                 LET q == req'[r]
                     bound == IF q.task = NoTask THEN None ELSE tasks[q.task].session_id
                 IN  /\ q.session_id_to_use = Precedence(bound, q.session_id)
                     /\ q.session_id_to_use = DetermineSessionId(tasks, q.task, q.session_id)]_vars
    /\ [](\A t \in {NoTask} \cup {u \in TaskIds : Live(tasks, u)} :
             \A s \in {None} \cup Sessions :
                 /\ SessionIdToUse(tasks, t, s) = DetermineSessionId(tasks, t, s)
                 /\ SessionIdToUse(tasks, t, s) =
                        Precedence(IF t = NoTask THEN None ELSE tasks[t].session_id, s))

\* a request that names a task bound to S1 and carries S2 resumes S1
C10_Witness ==
    \E r \in Requests :
        /\ req[r].pc = "connect"
        /\ req[r].task # NoTask
        /\ req[r].task_id = req[r].task
        /\ tasks[req[r].task].session_id = "S1"
        /\ req[r].session_id = "S2"
        /\ req[r].session_id_to_use = "S1"

\* the collisions request r has logged: the task it was running on and the
\* session that another task owns
Collisions(r) == {log[r][i] : i \in {j \in 1..Len(log[r]) : log[r][j].line = CollisionLine}}

\* the tasks to which a step adds a record of request r
Recorded(r) ==
    {t \in TaskIds : /\ Len(events'[t]) > Len(events[t])
                     /\ events'[t][Len(events'[t])].turn = r}

-----------------------------------------------------------------------------
(* Task resolution *)

\* C11: a request that names an existing task runs on that task, also when
\* it carries a session id that another task owns; a request without task
\* id that carries a session id runs on the owner of that session, if there
\* is one; otherwise it has no task yet; and resolving creates no task.
\* find_task_by_id_or_session resolves the same way.
C11_TaskResolution ==
    /\ [][\A r \in Requests :
             (req[r].pc = "idle" /\ req'[r].pc # "idle") =>
                 LET q == req'[r]
                 IN  /\ tasks' = tasks
                     /\ q.pc = "connect" =>
                            /\ q.task_id # NoTask => q.task = q.task_id /\ Live(tasks, q.task)
                            /\ (q.task_id = NoTask /\ q.session_id # None) =>
                                   q.task = TaskBySession(tasks, q.session_id)
                            /\ (q.task_id = NoTask /\ q.session_id = None) => q.task = NoTask
                            /\ q.task = FindTaskByIdOrSession(tasks, q.task_id, q.session_id)]_vars
    /\ [](\A s \in {None} \cup Sessions :
             /\ \A t \in TaskIds : Live(tasks, t) => FindTaskByIdOrSession(tasks, t, s) = t
             /\ FindTaskByIdOrSession(tasks, NoTask, s) =
                    (IF s # None /\ \E t \in TaskIds : Live(tasks, t) /\ tasks[t].session_id = s
                     THEN CHOOSE t \in TaskIds : Live(tasks, t) /\ tasks[t].session_id = s
                     ELSE NoTask))

\* a request names one task and carries the session id of another: it runs
\* on the task it names
C11_Witness ==
    \E r \in Requests :
        /\ req[r].pc = "connect"
        /\ req[r].task_id # NoTask
        /\ req[r].task = req[r].task_id
        /\ req[r].session_id # None
        /\ TaskBySession(tasks, req[r].session_id) \notin {NoTask, req[r].task_id}

-----------------------------------------------------------------------------
(* Usage accounting of one run of the adapter (SpecAdapter)                *)

\* an assistant message that reports usage
UsageBearing(m) ==
    /\ m.cls = "AssistantMessage"
    /\ m.usage # PyAbsent
    /\ Truthy(m.usage)

\* the step consumes message m
Consumes(m) == Len(consumed') = Len(consumed) + 1 /\ consumed'[Len(consumed')] = Msg(m)
Earlier(m) == \E i \in 1..Len(consumed) : consumed[i] = Msg(m)

\* C12: a usage-bearing assistant message, with or without an identifier
\* of its own, that the adapter is fed a second time leaves the recorded
\* usage and the aggregate as they were after the first time.
C12_UsageIdempotent ==
    [][\A m \in AdapterMessages :
          (UsageBearing(m) /\ Earlier(m) /\ Consumes(m)) =>
              /\ adapter'.step_usages = adapter.step_usages
              /\ AggregateUsage(adapter') = AggregateUsage(adapter)]_vars

\* the identifier a message carries, NoId when it has none
OwnId(m) == IF m.id # NoId THEN m.id ELSE m.message_id

\* the positions of consumed that hold a usage-bearing message with id
Observations(id) ==
    {i \in 1..Len(consumed) :
        /\ consumed[i].kind = "msg"
        /\ UsageBearing(consumed[i].msg)
        /\ OwnId(consumed[i].msg) = id}

\* C13: step_usages has one entry for each identifier seen on a
\* usage-bearing message and no two entries for one identifier, the entry
\* holds the usage of the first message that carried the identifier,
\* processed_message_ids is the set of the entries' identifiers, and a
\* message whose identifier was already processed changes neither.
C13_OneEntryPerMessageId ==
    /\ [](LET su == adapter.step_usages
          IN  /\ \A i, j \in 1..Len(su) : su[i].message_id = su[j].message_id => i = j
              /\ adapter.processed_message_ids = {su[i].message_id : i \in 1..Len(su)}
              /\ \A i \in 1..Len(su) :
                     su[i].message_id[1] = "up" =>
                         /\ Observations(su[i].message_id) # {}
                         /\ LET first == CHOOSE p \in Observations(su[i].message_id) :
                                            \A o \in Observations(su[i].message_id) : p <= o
                            IN  su[i].usage = consumed[first].msg.usage
              /\ \A p \in 1..Len(consumed) :
                     (consumed[p].kind = "msg" /\ UsageBearing(consumed[p].msg)
                        /\ OwnId(consumed[p].msg) # NoId) =>
                         OwnId(consumed[p].msg) \in adapter.processed_message_ids)
    /\ [][\A m \in AdapterMessages :
             (UsageBearing(m) /\ OwnId(m) \in adapter.processed_message_ids /\ Consumes(m)) =>
                 /\ adapter'.step_usages = adapter.step_usages
                 /\ adapter'.processed_message_ids = adapter.processed_message_ids]_vars

\* two messages with one identifier and different usage were consumed: the
\* only entry holds the usage of the first
C13_Witness ==
    /\ Len(consumed) >= 2
    /\ consumed[1] = Msg(AssistantUsage(UpId(7), 10))
    /\ consumed[2] = Msg(AssistantUsage(UpId(7), 3))
    /\ Len(adapter.step_usages) = 1
    /\ adapter.step_usages[1].usage = PyDict([input_tokens |-> 10])

\* the positions of consumed that hold a result message with a usage
\* summary
Summaries ==
    {i \in 1..Len(consumed) :
        /\ consumed[i].kind = "msg"
        /\ consumed[i].msg.cls = "ResultMessage"
        /\ consumed[i].msg.usage # PyAbsent
        /\ consumed[i].msg.usage.tag = "dict"
        /\ Truthy(consumed[i].msg.usage)}

\* C14: the RunFinished of a run that consumed a result message with a
\* usage summary reports that summary as its usage, whatever usage was
\* recorded from assistant messages before or after the result message.
C14_SummaryWins ==
    (adapter.state = "Finished" /\ Summaries # {}) =>
        LET last == CHOOSE i \in Summaries : \A j \in Summaries : j <= i
        IN  emitted[Len(emitted)].usage = consumed[last].msg.usage

\* usage was recorded from assistant messages before and after the result
\* message, and their sum differs from the summary that RunFinished reports
C14_Witness ==
    /\ adapter.state = "Finished"
    /\ Len(consumed) = 4
    /\ consumed[1] = Msg(AssistantUsage(UpId(7), 10))
    /\ consumed[2] = Msg(Result(Absent, PyNone, PyDict([input_tokens |-> 5])))
    /\ consumed[3] = Msg(AssistantUsage(NoId, 10))
    /\ Len(adapter.step_usages) = 2
    /\ AggregateUsage(adapter).val.input_tokens = 20
    /\ emitted[Len(emitted)].usage = PyDict([input_tokens |-> 5])

\* the positions of consumed that hold a message of class cls whose
\* attribute (usage or total_cost_usd) is set to something truthy
Carrying(cls, attr) ==
    {i \in 1..Len(consumed) :
        /\ consumed[i].kind = "msg"
        /\ cls # None => consumed[i].msg.cls = cls
        /\ consumed[i].msg[attr] # PyAbsent
        /\ Truthy(consumed[i].msg[attr])}

\* C15: the RunFinished of a run in which no message carried usage and no
\* result message carried a cost has neither a cost nor a usage (None, not
\* zero); and a RunFinished that has a cost has the positive cost that the
\* last result message with a cost carried.
C15_NothingFromNothing ==
    adapter.state = "Finished" =>
        LET fin == emitted[Len(emitted)]
            costs == Carrying("ResultMessage", "total_cost_usd")
        IN  /\ Carrying(None, "usage") = {} => fin.usage = PyNone
            /\ costs = {} => fin.total_cost_usd = PyNone
            /\ fin.total_cost_usd # PyNone =>
                   /\ costs # {}
                   /\ LET last == CHOOSE i \in costs : \A j \in costs : j <= i
                      IN  fin.total_cost_usd = consumed[last].msg.total_cost_usd
                   /\ fin.total_cost_usd.tag = "num"
                   /\ fin.total_cost_usd.val > 0

\* a run of three messages without usage or cost has ended normally
C15_Witness ==
    /\ adapter.state = "Finished"
    /\ Len(consumed) = 4
    /\ Carrying(None, "usage") = {}
    /\ Carrying(None, "total_cost_usd") = {}
    /\ \E i \in 1..3 : consumed[i].msg.cls = "AssistantMessage"
    /\ emitted[Len(emitted)].cls = "RunFinished"
    /\ emitted[Len(emitted)].usage = PyNone
    /\ emitted[Len(emitted)].total_cost_usd = PyNone

-----------------------------------------------------------------------------
(* Chunked payloads *)

ContentClasses == {"TextMessageContent", "ThinkingContent", "ToolCallArgs"}

\* the delta fields of the Content/Args events of seq that carry id,
\* concatenated in emission order
RECURSIVE Deltas(_, _)
Deltas(seq, id) ==
    IF seq = <<>> THEN <<>>
    ELSE (IF Head(seq).cls \in ContentClasses /\ Head(seq).id = id
          THEN Head(seq).delta ELSE <<>>) \o Deltas(Tail(seq), id)

\* the tool_calls entries and the content blocks of upstream message k
CallsOf(k) ==
    LET m == consumed[k].msg
    IN  IF consumed[k].kind = "msg" /\ m.cls = "AssistantMessage"
           /\ m.tool_calls # PyAbsent /\ m.tool_calls.tag = "list"
        THEN m.tool_calls.val ELSE <<>>
BlocksOf(k) ==
    LET m == consumed[k].msg
    IN  IF consumed[k].kind = "msg" /\ m.cls \in {"AssistantMessage", "UserMessage"}
           /\ m.content # PyAbsent /\ m.content.tag = "list"
        THEN m.content.val ELSE <<>>

\* the payloads upstream message k carries, each with the id its events
\* carry: an upstream-supplied id if the block has one, else the uuid drawn
\* for the block
PayloadsOf(k) ==
    LET n == Len(CallsOf(k))
        OwnOr(b, j) == IF b.id = AbsentId THEN Uuid(k, 2 * j - 1) ELSE b.id
    IN  {[id |-> OwnOr(CallsOf(k)[j], j), payload |-> StrOf(CallsOf(k)[j].input)] :
            j \in {i \in 1..n : CallsOf(k)[i].input # PyAbsent}}
        \cup
        {[id |-> OwnOr(BlocksOf(k)[j], n + j), payload |-> StrOf(BlocksOf(k)[j].input)] :
            j \in {i \in 1..Len(BlocksOf(k)) :
                     BlocksOf(k)[i].cls = "ToolUseBlock" /\ BlocksOf(k)[i].input # PyAbsent}}
        \cup
        {[id |-> Uuid(k, 2 * (n + j) - 1), payload |-> BlocksOf(k)[j].text.val] :
            j \in {i \in 1..Len(BlocksOf(k)) :
                     BlocksOf(k)[i].cls = "TextBlock" /\ BlocksOf(k)[i].text.tag = "str"}}
        \cup
        {[id |-> Uuid(k, 2 * (n + j) - 1), payload |-> BlocksOf(k)[j].thinking.val] :
            j \in {i \in 1..Len(BlocksOf(k)) :
                     BlocksOf(k)[i].cls = "ThinkingBlock"
                     /\ BlocksOf(k)[i].thinking.tag = "str"}}

\* C16: when a run has finished, for every text block, thinking block,
\* tool-use block and tool_calls entry of every message it consumed, the
\* deltas of all Content/Args events emitted for the block's id, put
\* together in emission order, are the block's payload (for a tool, the
\* string form of its input), whatever the length of the payload.
C16_DeltasRebuildPayload ==
    adapter.state = "Finished" =>
        \A k \in 1..Len(consumed) : \A b \in PayloadsOf(k) :
            Deltas(emitted, b.id) = b.payload

-----------------------------------------------------------------------------
(* Start / Content / End brackets *)

\* the three families of bracketed events: message_id, thinking_id and
\* tool_call_id
Families ==
    {[start |-> "TextMessageStart", content |-> "TextMessageContent",
      end |-> "TextMessageEnd"],
     [start |-> "ThinkingStart", content |-> "ThinkingContent", end |-> "ThinkingEnd"],
     [start |-> "ToolCallStart", content |-> "ToolCallArgs", end |-> "ToolCallEnd"]}

\* where the events of class cls that carry id are in the emitted sequence
At(cls, id) == {i \in 1..Len(emitted) : emitted[i].cls = cls /\ emitted[i].id = id}
IdsOf(f) == {emitted[i].id : i \in Positions(emitted, {f.start, f.content, f.end})}

\* C17: in the events of a run that has ended, every message_id,
\* thinking_id and tool_call_id (the upstream's own tool ids included, which
\* it may repeat) has exactly one Start and exactly one End, the End is
\* after the Start, and every Content/Args event of the id is between them.
C17_OneBracketPerId ==
    Ended(adapter) =>
        \A f \in Families : \A id \in IdsOf(f) :
            /\ Cardinality(At(f.start, id)) = 1
            /\ Cardinality(At(f.end, id)) = 1
            /\ \A s \in At(f.start, id) : \A e \in At(f.end, id) :
                  /\ s < e
                  /\ \A c \in At(f.content, id) : s < c /\ c < e

-----------------------------------------------------------------------------
(* Message order *)

IsPrefix(s, t) == Len(s) <= Len(t) /\ SubSeq(t, 1, Len(s)) = s

\* the events the dispatcher yields for upstream item k, in converter order
Derived(k) == IF consumed[k].kind = "msg" THEN ConvertMessage(consumed[k].msg, k).evs
              ELSE <<>>
RECURSIVE DerivedUpTo(_)
DerivedUpTo(n) == IF n = 0 THEN <<>> ELSE DerivedUpTo(n - 1) \o Derived(n)

\* what has been emitted between RunStarted and the terminal event
Body == SubSeq(emitted, 2, Len(emitted) - (IF Ended(adapter) THEN 1 ELSE 0))

\* C18: at every moment of a run the events emitted between RunStarted and
\* the terminal event are, message after message in upstream order, the
\* events derived from each consumed message in converter order: all the
\* events of the messages before the last one consumed, then the events of
\* the last one that have been emitted so far.
C18_MessageAfterMessage ==
    LET n == Len(consumed)
    IN  n > 0 => /\ IsPrefix(DerivedUpTo(n - 1), Body)
                 /\ IsPrefix(Body, DerivedUpTo(n))

\* the second message has been consumed and is half emitted, after a first
\* message of several events
C18_Witness ==
    /\ Len(consumed) = 2
    /\ Len(Derived(1)) > 2
    /\ Derived(2) # Derived(1)
    /\ adapter.pending # <<>>
    /\ Len(adapter.pending) < Len(Derived(2)) - 1

-----------------------------------------------------------------------------
(* Unregistered message kinds *)

\* the discriminants the five registered converters accept
Registered == {"SystemMessage", "UserMessage", "AssistantMessage", "ResultMessage",
               "ToolMessage", "FunctionMessage", "ToolResultMessage"}
Unregistered(m) == Discriminant(m) \notin Registered
OnlyUnregistered == \A i \in 1..Len(consumed) :
                       consumed[i].kind = "msg" /\ Unregistered(consumed[i].msg)

\* C19: the step that consumes a message no converter is registered for
\* emits one CustomEvent, typed by the message's raw discriminant and
\* holding its string form, and leaves the run running and ready for the
\* next message; and when the upstream ends normally after nothing but such
\* messages, the run ends with RunFinished.
C19_UnknownKindGoesOn ==
    [][/\ \A m \in AdapterMessages :
             Unregistered(m) /\ Consumes(m) =>
                /\ emitted' = Append(emitted, CustomEvent(Discriminant(m),
                                                          [D0 EXCEPT !.raw = m.cls]))
                /\ AtUpstream(adapter')
       /\ (OnlyUnregistered /\ consumed' = Append(consumed, End)) =>
             /\ adapter'.state = "Finished"
             /\ emitted'[Len(emitted')].cls = "RunFinished"]_vars

-----------------------------------------------------------------------------
(* Unrecognized content blocks *)

\* the block has no recognized type tag and none of the recognized shapes
UnknownShape(b) ==
    /\ b.type \notin {"thinking", "text", "tool_use", "tool_result"}
    /\ b.cls \notin {"ThinkingBlock", "TextBlock", "ToolUseBlock", "ToolResultBlock"}
    /\ b.thinking = PyAbsent /\ b.text = PyAbsent
    /\ ~(b.name # Absent /\ b.input # PyAbsent /\ b.id # AbsentId)
    /\ ~(b.tool_use_id # AbsentId /\ b.content # PyAbsent)

\* all the events of the message consumed by the step, the one it emits
\* and the ones its converter has yet to yield
Yielded == <<emitted'[Len(emitted')]>> \o adapter'.pending

\* C20: when the adapter consumes a message whose content list holds a
\* block of unknown shape (the blocks before it converting without an
\* exception), the message's events are those of the blocks before it, one
\* CustomEvent of type UnknownBlock with the block's type tag and string
\* form, and those of the blocks after it; the unknown block raises
\* nothing: the converter raises only what a later block raises.
C20_UnknownBlockDegrades ==
    [][\A m \in AdapterMessages :
          (Consumes(m) /\ m.cls = "AssistantMessage" /\ m.tool_calls = PyAbsent
           /\ m.content # PyAbsent /\ m.content.tag = "list") =>
             \A j \in 1..Len(m.content.val) :
                LET k == Len(consumed')
                    blocks == m.content.val
                    before == ConvertBlocks(SubSeq(blocks, 1, j - 1), k, 1)
                    after == ConvertBlocks(SubSeq(blocks, j + 1, Len(blocks)), k, j + 1)
                    unknown == CustomEvent("UnknownBlock",
                                           [D0 EXCEPT !.block_type = blocks[j].type,
                                                      !.block_repr = blocks[j].cls])
                IN  (UnknownShape(blocks[j]) /\ before.exc = NoExc) =>
                       /\ Yielded = before.evs \o <<unknown>> \o after.evs
                       /\ adapter'.exc = after.exc
                       /\ adapter'.state = "Running"]_vars

\* the unknown block's event has been emitted, and after it the events of
\* the text block that follows it in the message
C20_Witness ==
    \E i \in 1..Len(emitted) : \E e \in 1..Len(emitted) :
        /\ emitted[i].cls = "CustomEvent"
        /\ emitted[i].type = "UnknownBlock"
        /\ emitted[i].data.block_type = "image"
        /\ i < e
        /\ emitted[e].cls = "TextMessageEnd"
        /\ Len(consumed) = 1

-----------------------------------------------------------------------------
(* Properties of the tasks that requests create and find (SpecSeq)         *)

\* request r had named no task and t's first event was written by r: r
\* created t when its run started
LazilyCreatedBy(t, r) ==
    /\ req[r].task_id = NoTask
    /\ events[t] # <<>>
    /\ events[t][1].turn = r
\* the assistant Conversation rows that request r recorded for t
AssistantRowsOf(t, r) == {i \in AssistantRows(conversations, t) : conversations[t][i].turn = r}

\* C21: once a request has run to its end, a task it created lazily and
\* recorded no assistant message for (no assistant text, blank text,
\* thinking or tool events only, a failed run) does not exist any more.
C21_EmptyLazyTaskDeleted ==
    \A r \in Requests : \A t \in TaskIds :
        (req[r].pc = "done" /\ LazilyCreatedBy(t, r) /\ AssistantRowsOf(t, r) = {})
            => ~Live(tasks, t)

\* request r's step deletes task t
Deletes(r, t) ==
    /\ req[r].pc = "stream"
    /\ req[r].task = t
    /\ Live(tasks, t)
    /\ ~Live(tasks', t)

\* C22: the cleanup at the end of a run deletes only a task that the run's
\* own request created: never a task that was there before the request and
\* that the request named by its task_id or found by its session_id.
C22_IdentifiedTaskKept ==
    [][\A r \in Requests : \A t \in TaskIds : Deletes(r, t) => LazilyCreatedBy(t, r)]_vars

-----------------------------------------------------------------------------
(* Properties of the exits of a request (Spec)                             *)

\* request r's generator is suspended / has terminated
Suspended(r) == req[r].pc \in {"connect", "query", "stream"}
Exited(r) == req[r].pc \in {"done", "cancelled"}
\* the step in which request r's generator terminates
Exits(r) == Suspended(r) /\ req'[r].pc \in {"done", "cancelled"}

\* C23: whichever way a request leaves the generator once the upstream
\* client exists (the stream ran to its end, an upstream error, an
\* exception of the store or of the reconciliation, the client going away),
\* the upstream client has been disconnected when the generator has
\* terminated; and of every task that exists after the exit, all events and
\* conversation rows committed before it are still there.  The only task an
\* exit removes is the one the run's own cleanup deletes.
C23_DisconnectOnEveryExit ==
    /\ [](\A r \in Requests : Exited(r) => req[r].client \in {"none", "disconnected"})
    /\ [][\A r \in Requests :
             Exits(r) =>
                /\ req'[r].client = "disconnected"
                /\ \A t \in TaskIds :
                      /\ Live(tasks', t) => /\ IsPrefix(events[t], events'[t])
                                            /\ IsPrefix(conversations[t], conversations'[t])
                      /\ Deletes(r, t) => /\ Ended(req[r].adapter)
                                          /\ req'[r].pc = "done"]_vars

\* one request was left by the client mid-stream and the other ended in
\* the generator's exception handler; both clients are disconnected and the
\* first one's events are in the store
C23_Witness ==
    \E r \in Requests : \E p \in Requests \ {r} : \E t \in TaskIds :
        /\ req[r].pc = "cancelled"
        /\ req[r].client = "disconnected"
        /\ Live(tasks, t)
        /\ \E i \in 1..Len(events[t]) : events[t][i].turn = r /\ events[t][i].origin = "response"
        /\ req[p].pc = "done"
        /\ req[p].client = "disconnected"
        /\ sse[p] # <<>>
        /\ sse[p][Len(sse[p])].cls = "RunError"
        /\ sse[p][Len(sse[p])].run_id = HandlerRunId(p)

-----------------------------------------------------------------------------
(* Properties of the usage counters of a task (SpecSeq)                    *)

\* C24: no step lowers a cumulative counter (cost, input tokens, output
\* tokens) of a task that exists before and after the step.
C24_CountersNeverDrop ==
    [][\A t \in TaskIds :
          (Live(tasks, t) /\ Live(tasks', t)) =>
             /\ tasks'[t].total_cost_usd >= tasks[t].total_cost_usd
             /\ tasks'[t].total_input_tokens >= tasks[t].total_input_tokens
             /\ tasks'[t].total_output_tokens >= tasks[t].total_output_tokens]_vars

\* a task that two runs have charged, the second with smaller figures than
\* the first
C24_Witness ==
    \E t \in TaskIds :
        /\ Live(tasks, t)
        /\ tasks[t].total_cost_usd = 2
        /\ tasks[t].total_input_tokens = 13
        /\ tasks[t].total_output_tokens = 2
        /\ Cardinality(AssistantRows(conversations, t)) = 2
        /\ conversations[t][Len(conversations[t])].turn = 2

-----------------------------------------------------------------------------
(* A first turn (SpecSeq)                                                  *)

\* the turn: the init message that announces session S1, then "Hi"
FirstTurn == <<SystemInit("S1"), AssistantText(2)>>
\* request r has received the whole of the turn and its stream has ended
FirstTurnOver(r) ==
    /\ req[r].pc = "stream"
    /\ req[r].turn = FirstTurn
    /\ req[r].adapter.state = "Finished"
\* the adapter's events in what the client was sent: all but the
\* SessionInfo event that the endpoint adds
RECURSIVE FromAdapter(_)
FromAdapter(seq) ==
    IF seq = <<>> THEN <<>>
    ELSE (IF Head(seq).type = "SessionInfo" THEN <<>> ELSE <<Head(seq)>>)
             \o FromAdapter(Tail(seq))

\* C25: for the upstream sequence [init message with session S1, assistant
\* message with the text block "Hi"] the adapter's events are exactly
\* RunStarted, the CustomEvent of the SystemMessage, TextMessageStart of
\* role assistant, TextMessageContent with the text, TextMessageEnd and
\* RunFinished without cost and usage; and the run's task has session S1,
\* unless another task owns S1 or the task was bound to another session.
C25_FirstTurn ==
    \A r \in Requests :
        FirstTurnOver(r) =>
            LET evs == FromAdapter(sse[r])
                t == req[r].task
            IN  /\ Len(evs) = 6
                /\ evs[1] = RunStarted(RunId(r))
                /\ evs[2].cls = "CustomEvent" /\ evs[2].type = "SystemMessage"
                /\ evs[2].data.session_id = "S1"
                /\ evs[3].cls = "TextMessageStart" /\ evs[3].role = "assistant"
                /\ evs[4] = TextMessageContent(evs[3].id, Text(2))
                /\ evs[5] = TextMessageEnd(evs[3].id)
                /\ evs[6] = RunFinished(RunId(r), PyNone, PyNone)
                /\ t # NoTask
                /\ (OtherOwner(tasks, "S1", t) = NoTask
                    /\ tasks[t].session_id \in {None, "S1"})
                       => tasks[t].session_id = "S1"

\* the turn is over for a request that named no task: the task it created
\* has session S1, which no task had before
C25_Witness ==
    \E r \in Requests :
        /\ FirstTurnOver(r)
        /\ LazilyCreatedBy(req[r].task, r)
        /\ tasks[req[r].task].session_id = "S1"
        /\ log[r] # <<>>
        /\ log[r][Len(log[r])].line = "info: session saved"

-----------------------------------------------------------------------------
(* Cost and usage of RunFinished (SpecAdapter)                             *)

\* the usage-bearing assistant messages that are recorded: those without
\* an id of their own, and the first of each id
FirstUses ==
    {i \in 1..Len(consumed) :
        /\ consumed[i].kind = "msg"
        /\ UsageBearing(consumed[i].msg)
        /\ consumed[i].msg.usage.tag = "dict"
        /\ \/ OwnId(consumed[i].msg) = NoId
           \/ \A j \in 1..(i - 1) :
                 ~(consumed[j].kind = "msg" /\ UsageBearing(consumed[j].msg)
                   /\ OwnId(consumed[j].msg) = OwnId(consumed[i].msg))}
RECURSIVE InputTokensUpTo(_)
InputTokensUpTo(n) ==
    IF n = 0 THEN 0
    ELSE InputTokensUpTo(n - 1)
            + (IF n \in FirstUses THEN UsageGet(consumed[n].msg.usage, "input_tokens") ELSE 0)
Max(S) == CHOOSE x \in S : \A y \in S : y <= x

\* C26: in a finished run in which assistant messages carried usage and a
\* result message carried a cost but none carried a usage summary,
\* RunFinished has the result message's cost and, as usage, the sum of the
\* recorded per-message figures: the cost does not displace the usage.
C26_CostAndUsageApart ==
    (/\ adapter.state = "Finished"
     /\ Summaries = {}
     /\ Carrying("ResultMessage", "total_cost_usd") # {}
     /\ FirstUses # {}) =>
        LET fin == emitted[Len(emitted)]
            last == Max(Carrying("ResultMessage", "total_cost_usd"))
        IN  /\ fin.cls = "RunFinished"
            /\ fin.total_cost_usd = consumed[last].msg.total_cost_usd
            /\ fin.usage.tag = "dict"
            /\ fin.usage.val.input_tokens = InputTokensUpTo(Len(consumed))

\* the run of the claim: usage of 10 input tokens, then a result message
\* with a cost and no usage
C26_Witness ==
    /\ adapter.state = "Finished"
    /\ consumed = <<Msg(AssistantUsage(UpId(7), 10)), Msg(Result("S1", PyNum(2), PyNone)), End>>
    /\ emitted[Len(emitted)].total_cost_usd = PyNum(2)
    /\ emitted[Len(emitted)].usage.val.input_tokens = 10

-----------------------------------------------------------------------------
(* The end of the stream the client receives (Spec)                        *)

\* C27: in the stream of one request a RunFinished or RunError is the last
\* event sent: nothing follows it, also when saving the assistant message
\* or the cleanup fails after the adapter's terminal event; so the stream
\* holds at most one terminal event, and at most one RunError.
C27_NothingAfterTerminal ==
    \A r \in Requests :
        /\ Positions(sse[r], Terminal) \subseteq {Len(sse[r])}
        /\ Cardinality(Positions(sse[r], {"RunError"})) <= 1

\* C28: once the request's adapter has started its run, every RunStarted,
\* RunFinished and RunError the client receives for that request carries
\* the run id the adapter generated, the RunError of the endpoint's
\* exception handler included.
Lifecycle == {"RunStarted", "RunFinished", "RunError"}
C28_OneRunId ==
    \A r \in Requests :
        Positions(sse[r], {"RunStarted"}) # {} =>
            \A i \in Positions(sse[r], Lifecycle) : sse[r][i].run_id = RunId(r)

-----------------------------------------------------------------------------
(* Usage of an unrecognized shape (SpecAdapter)                            *)

\* a message whose usage is set and is not a dict
OpaqueUsage(m) ==
    /\ m.cls \in {"AssistantMessage", "ResultMessage"}
    /\ m.usage # PyAbsent
    /\ Truthy(m.usage)
    /\ m.usage.tag # "dict"
LastConsumed == consumed[Len(consumed)]
UsageKeys == {"input_tokens", "output_tokens", "cache_creation_input_tokens",
              "cache_read_input_tokens"}

\* the run does not fail at a message whose usage is not a dict
OpaqueUsageGoesOn ==
    adapter.state = "Errored" =>
        ~(consumed # <<>> /\ LastConsumed.kind = "msg" /\ OpaqueUsage(LastConsumed.msg))

\* what is recorded for such a message is a raw value that counts as 0,
\* and the aggregate of RunFinished is the sum of the dict-shaped figures
OpaqueUsageCountsZero ==
    /\ \A i \in 1..Len(adapter.step_usages) :
          LET u == adapter.step_usages[i].usage
          IN  /\ u.tag = "dict"
              /\ DOMAIN u.val = {"raw"} => \A key \in UsageKeys : SumUsage(<<adapter.step_usages[i]>>, key) = 0
    /\ (adapter.state = "Finished" /\ adapter.step_usages # <<>>
          /\ ~Truthy(adapter.result_message_usage)) =>
            emitted[Len(emitted)].usage.val.input_tokens = InputTokensUpTo(Len(consumed))

\* C29: an assistant or result message whose usage is not a dict never
\* makes the run fail: the usage is recorded as a raw value that adds 0 to
\* every counter, and the run ends with RunFinished.
C29_OpaqueUsageHarmless == OpaqueUsageGoesOn /\ OpaqueUsageCountsZero

\* the same for assistant messages alone
OpaqueAssistantUsageGoesOn ==
    adapter.state = "Errored" =>
        ~(consumed # <<>> /\ LastConsumed.kind = "msg" /\ OpaqueUsage(LastConsumed.msg)
            /\ LastConsumed.msg.cls = "AssistantMessage")

-----------------------------------------------------------------------------
(* The assistant message of a run (SpecSeq)                                *)

\* the id of the last TextMessageStart of role assistant among the events
\* seq, NoId when there is none
TrackedId(seq) ==
    LET starts == {i \in 1..Len(seq) :
                      seq[i].type = "TextMessageStart" /\ seq[i].role = "assistant"}
    IN  IF starts = {} THEN NoId ELSE seq[Max(starts)].id

\* the deltas of the TextMessageContent events of seq with message id id,
\* in order
RECURSIVE TextOf(_, _)
TextOf(seq, id) ==
    IF seq = <<>> THEN <<>>
    ELSE (IF Head(seq).type = "TextMessageContent" /\ Head(seq).id = id
          THEN Head(seq).delta ELSE <<>>) \o TextOf(Tail(seq), id)
TrackedText(seq) == IF TrackedId(seq) = NoId THEN <<>> ELSE TextOf(seq, TrackedId(seq))

\* the step appends an assistant row of run r to task t
SavesAssistant(r, t) ==
    /\ Len(conversations'[t]) = Len(conversations[t]) + 1
    /\ conversations'[t][Len(conversations'[t])].role = "assistant"
    /\ conversations'[t][Len(conversations'[t])].turn = r

\* the step is the end of run r after its adapter's stream has ended
Finalizes(r) ==
    /\ req[r].pc = "stream"
    /\ Ended(req[r].adapter)
    /\ req'[r].pc = "done"

\* C30: a run saves at most one assistant message, and only in the step
\* that follows the end of its adapter's stream; it saves one when it has
\* a task (one that exists) and the tracked text is not blank; the text
\* saved is the concatenation, in order, of the deltas of the
\* TextMessageContent events of the tracked message id (that of the last
\* TextMessageStart of role assistant), and of no other message.
C30_AssistantMessageOnce ==
    /\ [](\A r \in Requests :
            \A t, u \in TaskIds :
               \A i \in AssistantRowsOf(t, r), j \in AssistantRowsOf(u, r) :
                  t = u /\ i = j)
    /\ [][\A r \in Requests :
            /\ \A t \in TaskIds :
                  SavesAssistant(r, t) =>
                     /\ Finalizes(r)
                     /\ t = req[r].task
                     /\ ~Blank(TrackedText(sse[r]))
                     /\ conversations'[t][Len(conversations'[t])].content = TrackedText(sse[r])
            /\ (Finalizes(r) /\ req[r].task # NoTask /\ Live(tasks, req[r].task)
                  /\ ~Blank(TrackedText(sse[r]))) =>
                  SavesAssistant(r, req[r].task)]_vars

\* a run of two assistant messages has ended: the client received the
\* text of both, the row holds the text of the second
C30_Witness ==
    \E r \in Requests : \E t \in TaskIds :
        /\ req[r].pc = "done"
        /\ AssistantRowsOf(t, r) # {}
        /\ \A i \in AssistantRowsOf(t, r) : conversations[t][i].content = Text(11)
        /\ \E i \in 1..Len(sse[r]) :
              sse[r][i].type = "TextMessageContent" /\ sse[r][i].delta = Text(2)

-----------------------------------------------------------------------------
(* The cost of a run and the counters of its task (SpecSeq)                *)

\* a figure of the usage that RunFinished carries, 0 when it has none
Figure(usage, key) ==
    IF usage.tag = "dict" /\ key \in DOMAIN usage.val THEN usage.val[key] ELSE 0
Cost(v) == IF v.tag = "num" THEN v.val ELSE 0
LastSent(r) == sse[r][Len(sse[r])]

\* the counters of t grow in the step by cost, input and output
Charged(t, cost, input, output) ==
    /\ tasks'[t].total_cost_usd = tasks[t].total_cost_usd + cost
    /\ tasks'[t].total_input_tokens = tasks[t].total_input_tokens + input
    /\ tasks'[t].total_output_tokens = tasks[t].total_output_tokens + output

\* the run of r ends with the task it ran on still there
EndsOnTask(r) ==
    /\ Finalizes(r)
    /\ req[r].task # NoTask
    /\ Live(tasks, req[r].task)
    /\ Live(tasks', req[r].task)

\* C31: the counters of a task change only when a run on it ends: a run
\* whose last event is RunFinished adds the cost and the input and output
\* tokens that event carries, once; a run that ends with RunError adds
\* nothing.
C31_ChargedOnce ==
    [][/\ \A r \in Requests :
             EndsOnTask(r) =>
                IF LastSent(r).cls = "RunFinished"
                THEN Charged(req[r].task, Cost(LastSent(r).total_cost_usd),
                             Figure(LastSent(r).usage, "input_tokens"),
                             Figure(LastSent(r).usage, "output_tokens"))
                ELSE Charged(req[r].task, 0, 0, 0)
       /\ \A t \in TaskIds :
             (Live(tasks, t) /\ Live(tasks', t)
                /\ ~\E r \in Requests : Finalizes(r) /\ req[r].task = t) =>
                   Charged(t, 0, 0, 0)]_vars

\* the same for the runs that saved an assistant message
C31_ChargedWithMessage ==
    [][\A r \in Requests :
          (EndsOnTask(r) /\ SavesAssistant(r, req[r].task)) =>
                IF LastSent(r).cls = "RunFinished"
                THEN Charged(req[r].task, Cost(LastSent(r).total_cost_usd),
                             Figure(LastSent(r).usage, "input_tokens"),
                             Figure(LastSent(r).usage, "output_tokens"))
                ELSE Charged(req[r].task, 0, 0, 0)]_vars

-----------------------------------------------------------------------------
(* Classification of a content block (SpecBlocks)                          *)

Tags == {"thinking", "text", "tool_use", "tool_result"}

\* what a block is, by its tag when the tag is known, else by the first
\* shape it has
KindOf(block) ==
    IF block.type \in Tags THEN block.type
    ELSE IF block.cls = "ThinkingBlock" \/ block.thinking # PyAbsent THEN "thinking"
    ELSE IF block.cls = "TextBlock" \/ block.text # PyAbsent THEN "text"
    ELSE IF block.cls = "ToolUseBlock"
            \/ (block.name # Absent /\ block.input # PyAbsent /\ block.id # AbsentId)
    THEN "tool_use"
    ELSE IF block.cls = "ToolResultBlock"
            \/ (block.tool_use_id # AbsentId /\ block.content # PyAbsent)
    THEN "tool_result"
    ELSE "unknown"

\* the events of a kind, and the one that opens a conversion
EventsOf(kind) ==
    CASE kind = "thinking" -> {"ThinkingStart", "ThinkingContent", "ThinkingEnd"}
      [] kind = "text" -> {"TextMessageStart", "TextMessageContent", "TextMessageEnd"}
      [] kind = "tool_use" -> {"ToolCallStart", "ToolCallArgs", "ToolCallEnd"}
      [] kind = "tool_result" -> {"ToolCallResult"}
      [] OTHER -> {"CustomEvent"}
Openings == {"ThinkingStart", "TextMessageStart", "ToolCallStart", "ToolCallResult",
             "CustomEvent"}
Converted == consumed # <<>> /\ (AtUpstream(adapter) \/ Ended(adapter))

\* C32: a block with a type tag among thinking, text, tool_use and
\* tool_result is converted by the converter of the tag, whatever its other
\* fields; any other block by the first shape it has in the order thinking,
\* text, tool use, tool result; every block is converted once, also when it
\* has several shapes.
C32_ClassifiedOnce ==
    \A block \in Blocks :
        (Converted /\ consumed[1] = Msg(AssistantOf(block))) =>
            /\ Len(emitted) >= 2
            /\ emitted[2].cls \in Openings \cap EventsOf(KindOf(block))
            /\ Positions(emitted, Openings) = {2}
            /\ \A i \in 2..Len(emitted) :
                  emitted[i].cls \in EventsOf(KindOf(block)) \cup Terminal

\* a block whose tag is not among the four and that has every shape was
\* converted once, as thinking
C32_Witness ==
    /\ adapter.state = "Finished"
    /\ \E block \in Blocks :
          /\ consumed[1] = Msg(AssistantOf(block))
          /\ block.type = "image"
          /\ block.thinking # PyAbsent /\ block.text # PyAbsent /\ block.id # AbsentId
          /\ block.name # Absent /\ block.tool_use_id # AbsentId
          /\ emitted[2].cls = "ThinkingStart"
          /\ Positions(emitted, Openings) = {2}

-----------------------------------------------------------------------------
(* The aggregate of the usage observations (SpecAdapter)                   *)

\* the sum of a counter over the observations recorded among the first n
\* items consumed, a missing counter being 0
RECURSIVE CounterUpTo(_, _)
CounterUpTo(n, key) ==
    IF n = 0 THEN 0
    ELSE CounterUpTo(n - 1, key)
            + (IF n \in FirstUses /\ key \in DOMAIN consumed[n].msg.usage.val
               THEN consumed[n].msg.usage.val[key] ELSE 0)

\* C33: when no result message gave a usage summary and an assistant
\* message carried usage, the usage of RunFinished has the four counters
\* and no other entry, each the sum of that counter over the recorded
\* observations (one per message id), a missing counter being 0.
C33_SumOfObservations ==
    (/\ adapter.state = "Finished"
     /\ Summaries = {}
     /\ \E i \in 1..Len(consumed) :
           consumed[i].kind = "msg" /\ UsageBearing(consumed[i].msg)) =>
        LET fin == emitted[Len(emitted)]
        IN  /\ fin.cls = "RunFinished"
            /\ fin.usage.tag = "dict"
            /\ DOMAIN fin.usage.val = UsageKeys
            /\ \A key \in UsageKeys :
                  fin.usage.val[key] = CounterUpTo(Len(consumed), key)

\* a finished run of two observations, one with the four counters and one
\* with input tokens only, and a repetition that is not counted
C33_Witness ==
    /\ adapter.state = "Finished"
    /\ consumed = <<Msg(AssistantUsageFull), Msg(AssistantUsage(UpId(7), 10)),
                    Msg(AssistantUsageFull), End>>
    /\ emitted[Len(emitted)].usage = PyDict([input_tokens |-> 11,
                                             output_tokens |-> 2,
                                             cache_creation_input_tokens |-> 3,
                                             cache_read_input_tokens |-> 4])

-----------------------------------------------------------------------------
(* The bind of a session id the task already has (SpecSeq)                 *)

\* the step of request r takes a bind decision: it writes line
Binds(r) == Len(log'[r]) = Len(log[r]) + 1
Decision(r) == log'[r][Len(log'[r])]

\* C34: a bind of the session id the task already has changes no task (no
\* session id, no usage counter), no conversation and no event record that
\* exists (the step writes the record of the event it is handling and no
\* other), and is reported as a confirmation, not as an error or a warning.
C34_ConfirmationChangesNothing ==
    [][\A r \in Requests :
          (Binds(r) /\ tasks[Decision(r).task].session_id = Decision(r).session) =>
              /\ Decision(r).line = "info: session matches"
              /\ tasks' = tasks
              /\ conversations' = conversations
              /\ \A t \in TaskIds :
                    /\ Len(events'[t]) <= Len(events[t]) + (IF t = Decision(r).task THEN 1 ELSE 0)
                    /\ Len(events'[t]) >= Len(events[t])
                    /\ SubSeq(events'[t], 1, Len(events[t])) = events[t]]_vars

\* a run on a task with usage counted and session S1 bound has reported S1
\* again
C34_Witness ==
    \E r \in Requests :
        /\ log[r] # <<>>
        /\ log[r][Len(log[r])].session = "S1"
        /\ LET t == log[r][Len(log[r])].task
           IN  /\ tasks[t].session_id = "S1"
               /\ tasks[t].total_input_tokens > 0
               /\ \E p \in Requests \ {r} :
                     log[p] # <<>> /\ log[p][1] = [line |-> "info: session saved",
                                                   task |-> t, session |-> "S1"]

-----------------------------------------------------------------------------
(* The states of a run (FairSpecAdapter)                                   *)

RunMoves == {<<"NotStarted", "Running">>, <<"Running", "Finished">>,
             <<"Running", "Errored">>}

\* C35: the state of a run changes only from NotStarted to Running and from
\* Running to Finished or Errored, and a run whose consumer keeps iterating
\* and whose upstream ends or raises reaches Finished or Errored.
C35_RunTerminates ==
    /\ [][adapter'.state # adapter.state =>
             <<adapter.state, adapter'.state>> \in RunMoves]_vars
    /\ <>Ended(adapter)

\* a run has ended by a failure of the upstream after as many messages as
\* it may deliver, the first with a text of several chunks
C35_Witness ==
    /\ Ended(adapter)
    /\ Len(consumed) = MaxMsgs + 1
    /\ consumed[1] = Msg(AssistantText(11))
    /\ Cardinality(Positions(emitted, {"TextMessageContent"})) >= 2
    /\ consumed[Len(consumed)].kind = "raise"

-----------------------------------------------------------------------------
(* What a run persists and what it streams (SpecSeq)                       *)

\* the adapter's events among those sent to the client of r: all but the
\* endpoint's SessionInfo and the RunError of the endpoint's handler
RECURSIVE StreamedTypes(_, _)
StreamedTypes(seq, r) ==
    IF seq = <<>> THEN <<>>
    ELSE (IF Head(seq).type = "SessionInfo"
             \/ (Head(seq).cls = "RunError" /\ Head(seq).run_id = HandlerRunId(r))
          THEN <<>> ELSE <<Head(seq).type>>) \o StreamedTypes(Tail(seq), r)

\* the records of turn r among rows, in the order they were committed
RECURSIVE RecordsOf(_, _)
RecordsOf(rows, r) ==
    IF rows = <<>> THEN <<>>
    ELSE (IF Head(rows).turn = r THEN <<Head(rows)>> ELSE <<>>) \o RecordsOf(Tail(rows), r)

-----------------------------------------------------------------------------
(* A request for a task that does not exist (SpecSeq)                      *)

\* the step receives a request of r that names a task which does not exist
NamesNoTask(r) ==
    /\ req[r].pc = "idle"
    /\ req'[r].pc # "idle"
    /\ req'[r].task_id # NoTask
    /\ ~Live(tasks, req'[r].task_id)

\* C37: a request whose task_id names no existing task sends one RunError
\* and no other event, then or later; it changes no task, no event record
\* and no conversation, and it creates no upstream client.
C37_UnknownTaskOnlyFails ==
    [][\A r \in Requests :
          /\ NamesNoTask(r) =>
                /\ Len(sse'[r]) = 1
                /\ sse'[r][1].cls = "RunError"
                /\ req'[r].pc = "done"
                /\ req'[r].client = "none"
                /\ <<tasks', events', conversations'>> = <<tasks, events, conversations>>
          /\ req[r].pc = "done" => (sse'[r] = sse[r] /\ req'[r] = req[r])]_vars

\* a request that named a task deleted by the cleanup of an earlier run has
\* failed, in a store that holds a task
C37_Witness ==
    \E r \in Requests :
        /\ req[r].pc = "done"
        /\ req[r].task_id # NoTask
        /\ tasks[req[r].task_id].status = "deleted"
        /\ Len(sse[r]) = 1
        /\ \E t \in TaskIds : Live(tasks, t)

-----------------------------------------------------------------------------
(* Records and the tasks they belong to (Spec)                             *)

\* C38: under every interleaving of requests, every event record and every
\* conversation record belongs to a task that exists: a deleted task has
\* no record left and none is written for it afterwards.
C38_NoOrphanRecord ==
    \A t \in TaskIds :
        ~Live(tasks, t) => (events[t] = <<>> /\ conversations[t] = <<>>)

\* the same for the event records alone
C38_NoOrphanEvent ==
    \A t \in TaskIds : ~Live(tasks, t) => events[t] = <<>>

-----------------------------------------------------------------------------
(* The session id of a request (SpecSeq)                                   *)

\* the session id an event sent to the client carries: that of the init
\* event or of the result event, None for every other event
Carried(ev) ==
    IF /\ ev.cls = "CustomEvent"
       /\ \/ ev.type = "SystemMessage" /\ ev.data.subtype = "init"
          \/ ev.type = "ResultMessage"
       /\ ev.data.session_id \in Sessions
    THEN ev.data.session_id ELSE None
Carriers(r) == {i \in 1..Len(sse[r]) : Carried(sse[r][i]) # None}
Announcements(r) == {i \in 1..Len(sse[r]) : sse[r][i].type = "SessionInfo"}
Least(S) == CHOOSE x \in S : \A y \in S : x <= y

-----------------------------------------------------------------------------
(* The text of upstream user messages (SpecSeq)                            *)

\* the upstream of request r delivers user messages only, of kind kinds
\* ("str", "list": what their content is)
EchoesOnly(r, kinds) ==
    /\ req[r].turn # <<>>
    /\ \A i \in 1..Len(req[r].turn) :
          /\ req[r].turn[i].cls = "UserMessage"
          /\ req[r].turn[i].content.tag \in kinds

\* in a run that receives such messages only, every TextMessageStart sent
\* has role user
StartsAreUser(kinds) ==
    \A r \in Requests :
        EchoesOnly(r, kinds) =>
           \A i \in 1..Len(sse[r]) :
              sse[r][i].type = "TextMessageStart" => sse[r][i].role = "user"

\* the step saves no assistant message for such a run
EchoNotSaved(kinds) ==
    \A r \in Requests :
        EchoesOnly(r, kinds) => \A t \in TaskIds : ~SavesAssistant(r, t)

\* C40: every TextMessageStart derived from an upstream user message has
\* role user, whether the content is a string or a list of text blocks,
\* and the text of user messages is not saved as the assistant message.
C40_UserTextStaysUser ==
    /\ []StartsAreUser({"str", "list"})
    /\ [][EchoNotSaved({"str", "list"})]_vars

\* the same for user messages whose content is a string
C40_UserStringStaysUser ==
    /\ []StartsAreUser({"str"})
    /\ [][EchoNotSaved({"str"})]_vars

=============================================================================
